---- MODULE Spec2Model ----
(***************************************************************************)
(* Model of the keyword tokenizer's lexical pipeline: preprocessing        *)
(* output -> span extraction and script segmentation -> per-script         *)
(* tokenization and phrase merging -> tagging -> preset override.          *)
(*                                                                         *)
(* Strings are sequences of Unicode code points (a TLA+ string literal     *)
(* cannot hold non-ASCII text), so "cm" is <<99, 109>>.  Python indices    *)
(* are 0-based and so are all offsets below; Slice(s, a, b) is s[a:b].     *)
(* Confidences are integers in units of 1/10000 (0.95 is 9500).            *)
(* Tag labels are named in English; TagText gives the label's Python       *)
(* string, which is what the code compares.                                *)
(***************************************************************************)
EXTENDS Integers, Sequences, FiniteSets, TLC

VARIABLES
  pc,             \* position inside EnhancedPipeline.process / the operation under study
  cleaned,        \* the normalized keyword (output of Preprocessor.process)
  language,       \* the language hint; "None" is Python's None
  dictionaries,   \* DictionaryManager._dictionaries: dict name -> sequence of entries
  word_index,     \* DictionaryManager._word_index, as a set of <<lower-cased word, dict name>>
  cjk_trie,       \* SpanPhraseExtractor.cjk_trie
  latin_trie,     \* SpanPhraseExtractor.latin_trie
  spans,          \* SpanPhraseExtractor.extract: the spans
  locked_ranges,  \* SpanPhraseExtractor.extract: the locked ranges
  segments,       \* ScriptSegmenter.segment(cleaned)
  handed,         \* the (start, end, text) parts handed to a tokenizer in process
  all_tokens,     \* process: (position, text, preset tag, preset confidence), sorted
  tokens,         \* the token list given to EnhancedTagger.tag / PhraseMerger.merge
  tag_results,    \* EnhancedTagger.tag's return value
  final_results,  \* process: results after the preset override
  merged,         \* PhraseMerger.merge's return value
  candidate_list, \* the candidate list given to EnhancedTagger._create_result
  ai_answer,      \* what AIEnhancer.process_batch returned to _apply_ai_enhancement
  enhanced,       \* _apply_ai_enhancement: the results list it returns
  output,         \* _format_output: tagged_tokens and the keys of tag_summary
  batch,          \* process_batch: keywords, position, results, outcome
  pool,           \* CandidatePool.pool: lower-cased word -> CandidateEntry
  promotions,     \* history of the add_entry calls made by CandidatePool.promote
  threads,        \* the calls made to DictionaryManager.add_entry / remove_entry
  files,          \* the dictionary files on disk, as last written
  ja_words        \* JapaneseCompoundMerger.dictionary_words

\* the state of the AI step, the batch loop, the candidate pool, the dictionary writers
\* and the Japanese merger
service_vars == <<ai_answer, enhanced, output, batch, pool, promotions, threads, files,
                  ja_words>>

\* everything EnhancedPipeline.process and the operations studied alone work on, but pc
pipeline_data == <<cleaned, language, dictionaries, word_index, cjk_trie, latin_trie, spans,
                   locked_ranges, segments, handed, all_tokens, tokens, tag_results,
                   final_results, merged, candidate_list>>

vars == <<pc, cleaned, language, dictionaries, word_index, cjk_trie, latin_trie, spans, locked_ranges,
          segments, handed, all_tokens, tokens, tag_results, final_results, merged,
          candidate_list, service_vars>>

(***************************************************************************)
(* Python built-ins on strings.                                            *)
(***************************************************************************)
Min(a, b) == IF a < b THEN a ELSE b
Max(a, b) == IF a > b THEN a ELSE b

\* s[a:b] with 0 <= a; b may exceed len(s)
Slice(s, a, b) == IF a >= Min(b, Len(s)) THEN <<>> ELSE SubSeq(s, a + 1, Min(b, Len(s)))

\* s[i], 0-based
At(s, i) == s[i + 1]

RECURSIVE Concat(_)
Concat(ss) == IF ss = <<>> THEN <<>> ELSE Head(ss) \o Concat(Tail(ss))

\* sep.join(ss)
RECURSIVE Join(_, _)
Join(sep, ss) ==
  IF ss = <<>> THEN <<>>
  ELSE IF Len(ss) = 1 THEN ss[1]
  ELSE ss[1] \o sep \o Join(sep, Tail(ss))

\* str.lower() of one character.  U+0130 is the one code point whose lower
\* case is two code points (i + combining dot above); A-Z and the Latin-1
\* capitals move by 32; every other character of the model's texts is caseless.
lower_char(c) ==
  IF c = 304 THEN <<105, 775>>
  ELSE IF (65 <= c /\ c <= 90) \/ (192 <= c /\ c <= 222 /\ c # 215) THEN <<c + 32>>
  ELSE <<c>>

\* str.lower()
lower(s) == Concat([i \in 1..Len(s) |-> lower_char(s[i])])

isascii(c) == c < 128
isdigit(c) == 48 <= c /\ c <= 57
isupper(c) == (65 <= c /\ c <= 90) \/ (192 <= c /\ c <= 222 /\ c # 215) \/ c = 304
\* letters of the model's texts: ASCII, Latin-1/Extended-A letters, kana, CJK ideographs
isalpha(c) ==
  \/ (65 <= c /\ c <= 90) \/ (97 <= c /\ c <= 122)
  \/ (192 <= c /\ c <= 591 /\ c # 215 /\ c # 247)
  \/ (12353 <= c /\ c <= 12438) \/ (12449 <= c /\ c <= 12543)
  \/ (19968 <= c /\ c <= 40959)
isalnum(c) == isalpha(c) \/ isdigit(c)
isspace(c) == c \in {9, 10, 11, 12, 13, 28, 29, 30, 31, 32, 133, 160}

\* s.strip()
RECURSIVE lstrip(_)
lstrip(s) == IF s # <<>> /\ isspace(Head(s)) THEN lstrip(Tail(s)) ELSE s
RECURSIVE rstrip(_)
rstrip(s) == IF s # <<>> /\ isspace(s[Len(s)]) THEN rstrip(SubSeq(s, 1, Len(s) - 1)) ELSE s
strip(s) == rstrip(lstrip(s))

startswith(s, p) == Len(p) <= Len(s) /\ SubSeq(s, 1, Len(p)) = p
endswith(s, p) == Len(p) <= Len(s) /\ SubSeq(s, Len(s) - Len(p) + 1, Len(s)) = p

\* list.sort(key=...): stable insertion of x after every element whose key is <= key(x)
RECURSIVE InsertByKey(_, _, _)
InsertByKey(sorted, x, k) ==
  IF sorted = <<>> THEN <<x>>
  ELSE IF sorted[1][k] <= x[k] THEN <<sorted[1]>> \o InsertByKey(Tail(sorted), x, k)
  ELSE <<x>> \o sorted

RECURSIVE SortByKey(_, _)
SortByKey(s, k) ==
  IF s = <<>> THEN <<>>
  ELSE InsertByKey(SortByKey(SubSeq(s, 1, Len(s) - 1), k), s[Len(s)], k)


(***************************************************************************)
(* core/span_extractor.py                                                  *)
(***************************************************************************)

\* A Trie is modelled by the set of its end nodes: records [word, tag,
\* confidence, type] with word the normalized key.  Its nodes are the
\* prefixes of the words; node.is_end holds at a word.
NoData == [word |-> <<>>, tag |-> "none", confidence |-> 0, type |-> "none"]
NoMatch == [found |-> FALSE, text |-> <<>>, end |-> 0, data |-> NoData]

\* Trie._normalize with case_sensitive = False
Trie_normalize(text) == lower(text)

\* Trie.insert: a later insert of the same key replaces node.data
Trie_insert(trie, word, tag, confidence, type) ==
  LET w == Trie_normalize(word) IN
  {e \in trie : e.word # w}
    \cup {[word |-> w, tag |-> tag, confidence |-> confidence, type |-> type]}

Trie_has_node(trie, prefix) == \E e \in trie : startswith(e.word, prefix)
Trie_is_end(trie, prefix) == \E e \in trie : e.word = prefix
Trie_data(trie, prefix) == CHOOSE e \in trie : e.word = prefix

\* The loop of Trie.search_longest at index i; last is the match recorded so far.
RECURSIVE search_loop(_, _, _, _, _, _)
search_loop(trie, text, text_normalized, start, i, last) ==
  IF i >= Len(text_normalized) THEN last
  ELSE LET prefix == Slice(text_normalized, start, i + 1) IN
       IF ~Trie_has_node(trie, prefix) THEN last
       ELSE search_loop(trie, text, text_normalized, start, i + 1,
              IF Trie_is_end(trie, prefix)
              THEN [found |-> TRUE, text |-> Slice(text, start, i + 1),
                    end |-> i + 1, data |-> Trie_data(trie, prefix)]
              ELSE last)

\* Trie.search_longest: the indices run over the normalized text, the
\* returned slice is cut from the text as passed.
search_longest(trie, text, start) ==
  LET r == search_loop(trie, text, Trie_normalize(text), start, start, NoMatch)
  IN IF r.found /\ r.text # <<>> THEN r ELSE NoMatch

\* SpanPhraseExtractor._is_cjk_dominant
is_cjk_dominant(text) ==
  LET cjk_count == Cardinality({i \in 1..Len(text) :
                      \/ (19968 <= text[i] /\ text[i] <= 40959)
                      \/ (12352 <= text[i] /\ text[i] <= 12543)})
  IN 2 * cjk_count > Len(text)

\* SpanPhraseExtractor._is_cjk_char
is_cjk_char(code) ==
  \/ (19968 <= code /\ code <= 40959)
  \/ (12352 <= code /\ code <= 12447)
  \/ (12448 <= code /\ code <= 12543)

\* SpanPhraseExtractor._is_in_locked_range
is_in_locked_range(pos, locked) ==
  \E k \in 1..Len(locked) : locked[k].start <= pos /\ pos < locked[k].end


\* SpanPhraseExtractor.number_unit_pattern: the unit alternation, in the order the regex tries it
number_unit_units ==
  <<
    <<30721>>,  \* 码
    <<23544>>,  \* 寸
    <<21495>>,  \* 号
    <<99, 109>>,  \* cm
    <<109, 109>>,  \* mm
    <<109>>,  \* m
    <<105, 110, 99, 104>>,  \* inch
    <<33521, 23544>>,  \* 英寸
    <<21400, 31859>>,  \* 厘米
    <<107, 103>>,  \* kg
    <<103>>,  \* g
    <<108, 98>>,  \* lb
    <<30917>>,  \* 磅
    <<20811>>,  \* 克
    <<21315, 20811>>,  \* 千克
    <<109, 108>>,  \* ml
    <<108>>,  \* l
    <<27627, 21319>>,  \* 毫升
    <<21319>>,  \* 升
    <<71, 66>>,  \* GB
    <<84, 66>>,  \* TB
    <<77, 66>>,  \* MB
    <<103, 98>>,  \* gb
    <<116, 98>>,  \* tb
    <<109, 98>>,  \* mb
    <<24352>>,  \* 张
    <<29255>>,  \* 片
    <<20010>>,  \* 个
    <<21482>>,  \* 只
    <<26465>>,  \* 条
    <<25903>>,  \* 支
    <<29942>>,  \* 瓶
    <<30418>>,  \* 盒
    <<21253>>,  \* 包
    <<34955>>,  \* 袋
    <<20214>>,  \* 件
    <<22871>>,  \* 套
    <<21452>>,  \* 双
    <<23545>>  \* 对
  >>

\* COMMON_PHRASES, in the order create_span_extractor adds them through add_phrase
COMMON_PHRASES ==
  <<
    [word |-> <<108, 111, 110, 103, 32, 115, 108, 101, 101, 118, 101>>, tag |-> "attribute", confidence |-> 9000, type |-> "fixed_phrase"],  \* long sleeve
    [word |-> <<115, 104, 111, 114, 116, 32, 115, 108, 101, 101, 118, 101>>, tag |-> "attribute", confidence |-> 9000, type |-> "fixed_phrase"],  \* short sleeve
    [word |-> <<104, 105, 103, 104, 32, 119, 97, 105, 115, 116>>, tag |-> "attribute", confidence |-> 9000, type |-> "fixed_phrase"],  \* high waist
    [word |-> <<108, 111, 119, 32, 119, 97, 105, 115, 116>>, tag |-> "attribute", confidence |-> 9000, type |-> "fixed_phrase"],  \* low waist
    [word |-> <<115, 108, 105, 109, 32, 102, 105, 116>>, tag |-> "attribute", confidence |-> 9000, type |-> "fixed_phrase"],  \* slim fit
    [word |-> <<108, 111, 111, 115, 101, 32, 102, 105, 116>>, tag |-> "attribute", confidence |-> 9000, type |-> "fixed_phrase"],  \* loose fit
    [word |-> <<113, 117, 105, 99, 107, 32, 100, 114, 121>>, tag |-> "feature", confidence |-> 9000, type |-> "fixed_phrase"],  \* quick dry
    [word |-> <<119, 97, 116, 101, 114, 32, 114, 101, 115, 105, 115, 116, 97, 110, 116>>, tag |-> "feature", confidence |-> 9000, type |-> "fixed_phrase"],  \* water resistant
    [word |-> <<119, 97, 116, 101, 114, 32, 112, 114, 111, 111, 102>>, tag |-> "feature", confidence |-> 9000, type |-> "fixed_phrase"],  \* water proof
    [word |-> <<111, 112, 101, 110, 32, 101, 97, 114>>, tag |-> "attribute", confidence |-> 9000, type |-> "fixed_phrase"],  \* open ear
    [word |-> <<110, 111, 105, 115, 101, 32, 99, 97, 110, 99, 101, 108, 108, 105, 110, 103>>, tag |-> "feature", confidence |-> 9000, type |-> "fixed_phrase"],  \* noise cancelling
    [word |-> <<109, 101, 109, 111, 114, 121, 32, 102, 111, 97, 109>>, tag |-> "attribute", confidence |-> 9000, type |-> "fixed_phrase"],  \* memory foam
    [word |-> <<115, 116, 97, 105, 110, 108, 101, 115, 115, 32, 115, 116, 101, 101, 108>>, tag |-> "attribute", confidence |-> 9000, type |-> "fixed_phrase"],  \* stainless steel
    [word |-> <<109, 105, 116, 32, 107, 97, 112, 117, 122, 101>>, tag |-> "attribute", confidence |-> 9000, type |-> "fixed_phrase"],  \* mit kapuze
    [word |-> <<104, 111, 104, 101, 32, 116, 97, 105, 108, 108, 101>>, tag |-> "attribute", confidence |-> 9000, type |-> "fixed_phrase"],  \* hohe taille
    [word |-> <<116, 97, 105, 108, 108, 101, 32, 104, 97, 117, 116, 101>>, tag |-> "attribute", confidence |-> 9000, type |-> "fixed_phrase"],  \* taille haute
    [word |-> <<109, 97, 110, 99, 104, 101, 115, 32, 108, 111, 110, 103, 117, 101, 115>>, tag |-> "attribute", confidence |-> 9000, type |-> "fixed_phrase"],  \* manches longues
    [word |-> <<109, 97, 110, 99, 104, 101, 115, 32, 99, 111, 117, 114, 116, 101, 115>>, tag |-> "attribute", confidence |-> 9000, type |-> "fixed_phrase"],  \* manches courtes
    [word |-> <<115, 111, 117, 115, 32, 108, 105, 116>>, tag |-> "attribute", confidence |-> 9000, type |-> "fixed_phrase"],  \* sous lit
    [word |-> <<224, 32, 114, 111, 117, 108, 101, 116, 116, 101, 115>>, tag |-> "attribute", confidence |-> 9000, type |-> "fixed_phrase"],  \* à roulettes
    [word |-> <<109, 97, 110, 103, 97, 32, 108, 97, 114, 103, 97>>, tag |-> "attribute", confidence |-> 9000, type |-> "fixed_phrase"],  \* manga larga
    [word |-> <<109, 97, 110, 103, 97, 32, 99, 111, 114, 116, 97>>, tag |-> "attribute", confidence |-> 9000, type |-> "fixed_phrase"],  \* manga corta
    [word |-> <<99, 105, 110, 116, 117, 114, 97, 32, 97, 108, 116, 97>>, tag |-> "attribute", confidence |-> 9000, type |-> "fixed_phrase"]  \* cintura alta
  >>


\* Case folding of re.IGNORECASE for one character (the folds that reach i and s included)
regex_fold(c) ==
  IF c = 304 \/ c = 305 THEN 105
  ELSE IF c = 383 THEN 115
  ELSE IF 65 <= c /\ c <= 90 THEN c + 32
  ELSE c

RECURSIVE skip_while_digit(_, _)
skip_while_digit(text, p) ==
  IF p < Len(text) /\ isdigit(At(text, p)) THEN skip_while_digit(text, p + 1) ELSE p

RECURSIVE skip_while_space(_, _)
skip_while_space(text, p) ==
  IF p < Len(text) /\ isspace(At(text, p)) THEN skip_while_space(text, p + 1) ELSE p

\* does the literal unit match the text at p, ignoring case
unit_matches_at(text, p, unit) ==
  /\ p + Len(unit) <= Len(text)
  /\ \A k \in 1..Len(unit) : regex_fold(At(text, p + k - 1)) = regex_fold(unit[k])

\* number_unit_pattern matched at pos: (\d+\.?\d*)\s*(unit|unit|...), the
\* alternation taken in order.  No backtracking can rescue a failed greedy
\* attempt (no unit starts with a digit, a dot or a space).  -1: no match.
number_unit_match_end(text, pos) ==
  IF ~(pos < Len(text) /\ isdigit(At(text, pos))) THEN -1
  ELSE LET p1 == skip_while_digit(text, pos)
           p2 == IF p1 < Len(text) /\ At(text, p1) = 46 THEN p1 + 1 ELSE p1
           p3 == skip_while_digit(text, p2)
           p4 == skip_while_space(text, p3)
           alts == {k \in 1..Len(number_unit_units) :
                      unit_matches_at(text, p4, number_unit_units[k])}
       IN IF alts = {} THEN -1
          ELSE LET first == CHOOSE k \in alts : \A j \in alts : k <= j
               IN p4 + Len(number_unit_units[first])

\* number_unit_pattern.finditer(text) from pos on: the (start, end) of each match
RECURSIVE number_unit_finditer(_, _)
number_unit_finditer(text, pos) ==
  IF pos >= Len(text) THEN <<>>
  ELSE LET e == number_unit_match_end(text, pos) IN
       IF e < 0 THEN number_unit_finditer(text, pos + 1)
       ELSE <<[start |-> pos, end |-> e]>> \o number_unit_finditer(text, e)

\* SpanPhraseExtractor._match_latin_with_boundary
match_latin_with_boundary(latin, text, text_lower, start) ==
  IF start > 0 /\ isascii(At(text_lower, start - 1)) /\ isalnum(At(text_lower, start - 1))
  THEN NoMatch
  ELSE LET r == search_longest(latin, text_lower, start) IN
       IF ~r.found THEN NoMatch
       ELSE IF r.end < Len(text)
                 /\ isascii(At(text_lower, r.end)) /\ isalnum(At(text_lower, r.end))
            THEN NoMatch
            ELSE [found |-> TRUE, text |-> Slice(text, start, r.end),
                  end |-> r.end, data |-> r.data]

MakeSpan(start, r) ==
  [start |-> start, end |-> r.end, text |-> r.text, span_type |-> r.data.type,
   tag |-> r.data.tag, confidence |-> r.data.confidence]

\* extract, step 2: the while loop over the text from index i
RECURSIVE extract_loop(_, _, _, _, _, _, _)
extract_loop(cjk, latin, text, text_lower, i, sp, locked) ==
  IF i >= Len(text) THEN [spans |-> sp, locked_ranges |-> locked]
  ELSE IF is_in_locked_range(i, locked)
  THEN extract_loop(cjk, latin, text, text_lower, i + 1, sp, locked)
  ELSE LET r == IF is_cjk_char(At(text, i))
                THEN search_longest(cjk, text, i)
                ELSE match_latin_with_boundary(latin, text, text_lower, i)
       IN IF r.found
          THEN extract_loop(cjk, latin, text, text_lower, r.end,
                            Append(sp, MakeSpan(i, r)),
                            Append(locked, [start |-> i, end |-> r.end]))
          ELSE extract_loop(cjk, latin, text, text_lower, i + 1, sp, locked)

\* SpanPhraseExtractor.extract: number+unit matches first, then the tries, then both lists sorted by start
extract(cjk, latin, text) ==
  LET nu == number_unit_finditer(text, 0)
      nu_spans == [k \in 1..Len(nu) |->
                     [start |-> nu[k].start, end |-> nu[k].end,
                      text |-> Slice(text, nu[k].start, nu[k].end),
                      span_type |-> "number_unit", tag |-> "size", confidence |-> 9500]]
      r == extract_loop(cjk, latin, text, lower(text), 0, nu_spans, nu)
  IN [spans |-> SortByKey(r.spans, "start"),
      locked_ranges |-> SortByKey(r.locked_ranges, "start")]

\* SpanPhraseExtractor.add_phrase / _load_from_dictionary: the trie an entry goes to
RECURSIVE load_trie(_, _, _)
load_trie(trie, entries, want_cjk) ==
  IF entries = <<>> THEN trie
  ELSE LET e == Head(entries) IN
       load_trie(IF is_cjk_dominant(e.word) = want_cjk
                 THEN Trie_insert(trie, e.word, e.tag, e.confidence, e.type)
                 ELSE trie,
                 Tail(entries), want_cjk)


(***************************************************************************)
(* core/script_segmenter.py                                                *)
(***************************************************************************)

\* unicodedata.category(char).startswith('P') on the characters the
\* preprocessor lets through and the CJK punctuation
is_punct(c) ==
  c \in {33, 34, 35, 37, 38, 39, 40, 41, 42, 44, 45, 46, 47, 58, 59, 63, 64,
         91, 92, 93, 95, 123, 125, 12289, 12290}

is_cjk(code) ==
  \/ (19968 <= code /\ code <= 40959) \/ (13312 <= code /\ code <= 19903)
  \/ (131072 <= code /\ code <= 173791) \/ (173824 <= code /\ code <= 177983)
  \/ (177984 <= code /\ code <= 178207) \/ (63744 <= code /\ code <= 64255)
  \/ (12032 <= code /\ code <= 12255)
is_kana(code) ==
  \/ (12352 <= code /\ code <= 12447) \/ (12448 <= code /\ code <= 12543)
  \/ (12784 <= code /\ code <= 12799) \/ (65381 <= code /\ code <= 65439)
is_hangul(code) ==
  \/ (44032 <= code /\ code <= 55215) \/ (4352 <= code /\ code <= 4607)
  \/ (12592 <= code /\ code <= 12687)
is_latin(code) ==
  \/ (65 <= code /\ code <= 90) \/ (97 <= code /\ code <= 122)
  \/ (192 <= code /\ code <= 255) \/ (256 <= code /\ code <= 383)
  \/ (384 <= code /\ code <= 591) \/ (7680 <= code /\ code <= 7935)
  \/ (65313 <= code /\ code <= 65338) \/ (65345 <= code /\ code <= 65370)

\* ScriptSegmenter._get_script_type
get_script_type(char) ==
  IF isspace(char) THEN "space"
  ELSE IF isdigit(char) THEN "number"
  ELSE IF is_cjk(char) THEN "cjk"
  ELSE IF is_kana(char) THEN "kana"
  ELSE IF is_hangul(char) THEN "hangul"
  ELSE IF is_latin(char) THEN "latin"
  ELSE IF is_punct(char) THEN "punct"
  ELSE "other"

\* ScriptSegmenter._can_merge
can_merge(script1, script2) ==
  script1 \in {"latin", "number", "punct"} /\ script2 \in {"latin", "number", "punct"}

Segment(text, script, start, end) ==
  [text |-> text, script |-> script, start |-> start, end |-> end]

\* the for loop of ScriptSegmenter.segment at index i (merge_adjacent_latin = True)
RECURSIVE segment_loop(_, _, _, _, _, _)
segment_loop(text, i, segs, current_text, current_script, current_start) ==
  IF i >= Len(text)
  THEN IF strip(current_text) # <<>>
       THEN Append(segs, Segment(current_text, current_script, current_start, Len(text)))
       ELSE segs
  ELSE LET char == At(text, i)
           char_script == get_script_type(char)
           closed == IF strip(current_text) # <<>>
                     THEN Append(segs, Segment(current_text, current_script, current_start, i))
                     ELSE segs
       IN IF char_script = "space"
          THEN IF strip(current_text) # <<>>
               THEN segment_loop(text, i + 1, closed, <<>>, "None", i + 1)
               ELSE segment_loop(text, i + 1, segs, current_text, current_script, i + 1)
          ELSE IF current_script # "None" /\ char_script # current_script
          THEN IF ~can_merge(current_script, char_script)
               THEN segment_loop(text, i + 1, closed, <<char>>, char_script, i)
               ELSE segment_loop(text, i + 1, segs, Append(current_text, char),
                                 IF current_script = "number" THEN "latin" ELSE current_script,
                                 current_start)
          ELSE segment_loop(text, i + 1, segs, Append(current_text, char),
                            IF current_script = "None" THEN char_script ELSE current_script,
                            current_start)

\* A post-merge that joins the texts without the gap: what C18 tells apart from post_merge_loop
RECURSIVE Variant_post_merge_no_gap(_, _, _)
Variant_post_merge_no_gap(current, rest, out) ==
  IF rest = <<>> THEN Append(out, current)
  ELSE LET next_seg == Head(rest)
       IN IF can_merge(current.script, next_seg.script) /\ next_seg.start - current.end <= 1
          THEN Variant_post_merge_no_gap(
                 Segment(current.text \o next_seg.text, "latin", current.start, next_seg.end),
                 Tail(rest), out)
          ELSE Variant_post_merge_no_gap(next_seg, Tail(rest), Append(out, current))

\* ScriptSegmenter._post_merge, from the running segment current on
RECURSIVE post_merge_loop(_, _, _)
post_merge_loop(current, rest, out) ==
  IF rest = <<>> THEN Append(out, current)
  ELSE LET next_seg == Head(rest)
           gap == next_seg.start - current.end
       IN IF can_merge(current.script, next_seg.script) /\ gap <= 1
          THEN post_merge_loop(
                 Segment(current.text \o [k \in 1..gap |-> 32] \o next_seg.text,
                         "latin", current.start, next_seg.end),
                 Tail(rest), out)
          ELSE post_merge_loop(next_seg, Tail(rest), Append(out, current))

post_merge(segs) ==
  IF segs = <<>> THEN segs ELSE post_merge_loop(Head(segs), Tail(segs), <<>>)

\* ScriptSegmenter.segment
segment(text) ==
  IF text = <<>> THEN <<>>
  ELSE post_merge(segment_loop(text, 0, <<>>, <<>>, "None", 0))

\* ScriptSegmenter.get_tokenizer_for_script
get_tokenizer_for_script(script) ==
  CASE script = "cjk" -> "chinese"
    [] script = "kana" -> "japanese"
    [] script = "hangul" -> "korean"
    [] script = "latin" -> "european"
    [] script \in {"number", "punct", "other"} -> "passthrough"
    [] OTHER -> "european"


\* PhraseMerger._load_default_phrases: default_phrases as add_phrase receives them.
\* A key written ("word") is a Python str, not a tuple: iterating it yields its characters.
default_phrases ==
  {
    [tokens |-> <<<<99, 97, 114, 100>>, <<115, 116, 111, 99, 107>>>>, tag |-> "product", confidence |-> 9500],  \* card stock
    [tokens |-> <<<<99>>, <<97>>, <<114>>, <<100>>, <<115>>, <<116>>, <<111>>, <<99>>, <<107>>>>, tag |-> "product", confidence |-> 9500],  \* str 'cardstock'
    [tokens |-> <<<<115, 116, 105, 99, 107, 121>>, <<110, 111, 116, 101, 115>>>>, tag |-> "product", confidence |-> 9500],  \* sticky notes
    [tokens |-> <<<<105, 110, 100, 101, 120>>, <<99, 97, 114, 100, 115>>>>, tag |-> "product", confidence |-> 9500],  \* index cards
    [tokens |-> <<<<102, 108, 97, 115, 104>>, <<99, 97, 114, 100, 115>>>>, tag |-> "product", confidence |-> 9500],  \* flash cards
    [tokens |-> <<<<98, 117, 115, 105, 110, 101, 115, 115>>, <<99, 97, 114, 100, 115>>>>, tag |-> "product", confidence |-> 9500],  \* business cards
    [tokens |-> <<<<103, 114, 101, 101, 116, 105, 110, 103>>, <<99, 97, 114, 100, 115>>>>, tag |-> "product", confidence |-> 9500],  \* greeting cards
    [tokens |-> <<<<110, 111, 116, 101>>, <<99, 97, 114, 100, 115>>>>, tag |-> "product", confidence |-> 9500],  \* note cards
    [tokens |-> <<<<100, 117, 102, 102, 108, 101>>, <<98, 97, 103>>>>, tag |-> "product", confidence |-> 9500],  \* duffle bag
    [tokens |-> <<<<100, 117, 102, 102, 101, 108>>, <<98, 97, 103>>>>, tag |-> "product", confidence |-> 9500],  \* duffel bag
    [tokens |-> <<<<116, 111, 116, 101>>, <<98, 97, 103>>>>, tag |-> "product", confidence |-> 9500],  \* tote bag
    [tokens |-> <<<<109, 101, 115, 115, 101, 110, 103, 101, 114>>, <<98, 97, 103>>>>, tag |-> "product", confidence |-> 9500],  \* messenger bag
    [tokens |-> <<<<108, 97, 112, 116, 111, 112>>, <<98, 97, 103>>>>, tag |-> "product", confidence |-> 9500],  \* laptop bag
    [tokens |-> <<<<103, 121, 109>>, <<98, 97, 103>>>>, tag |-> "product", confidence |-> 9500],  \* gym bag
    [tokens |-> <<<<116, 114, 97, 118, 101, 108>>, <<98, 97, 103>>>>, tag |-> "product", confidence |-> 9500],  \* travel bag
    [tokens |-> <<<<115, 104, 111, 117, 108, 100, 101, 114>>, <<98, 97, 103>>>>, tag |-> "product", confidence |-> 9500],  \* shoulder bag
    [tokens |-> <<<<99, 114, 111, 115, 115, 98, 111, 100, 121>>, <<98, 97, 103>>>>, tag |-> "product", confidence |-> 9500],  \* crossbody bag
    [tokens |-> <<<<102, 97, 110, 110, 121>>, <<112, 97, 99, 107>>>>, tag |-> "product", confidence |-> 9500],  \* fanny pack
    [tokens |-> <<<<98, 101, 108, 116>>, <<98, 97, 103>>>>, tag |-> "product", confidence |-> 9500],  \* belt bag
    [tokens |-> <<<<115, 108, 105, 110, 103>>, <<98, 97, 103>>>>, tag |-> "product", confidence |-> 9500],  \* sling bag
    [tokens |-> <<<<98, 101, 100>>, <<115, 104, 101, 101, 116, 115>>>>, tag |-> "product", confidence |-> 9500],  \* bed sheets
    [tokens |-> <<<<115, 104, 101, 101, 116>>, <<115, 101, 116>>>>, tag |-> "product", confidence |-> 9500],  \* sheet set
    [tokens |-> <<<<112, 105, 108, 108, 111, 119>>, <<99, 97, 115, 101>>>>, tag |-> "product", confidence |-> 9500],  \* pillow case
    [tokens |-> <<<<112, 105, 108, 108, 111, 119>>, <<99, 97, 115, 101, 115>>>>, tag |-> "product", confidence |-> 9500],  \* pillow cases
    [tokens |-> <<<<109, 97, 116, 116, 114, 101, 115, 115>>, <<116, 111, 112, 112, 101, 114>>>>, tag |-> "product", confidence |-> 9500],  \* mattress topper
    [tokens |-> <<<<109, 97, 116, 116, 114, 101, 115, 115>>, <<112, 97, 100>>>>, tag |-> "product", confidence |-> 9500],  \* mattress pad
    [tokens |-> <<<<109, 97, 116, 116, 114, 101, 115, 115>>, <<112, 114, 111, 116, 101, 99, 116, 111, 114>>>>, tag |-> "product", confidence |-> 9500],  \* mattress protector
    [tokens |-> <<<<99, 111, 109, 102, 111, 114, 116, 101, 114>>, <<115, 101, 116>>>>, tag |-> "product", confidence |-> 9500],  \* comforter set
    [tokens |-> <<<<100, 117, 118, 101, 116>>, <<99, 111, 118, 101, 114>>>>, tag |-> "product", confidence |-> 9500],  \* duvet cover
    [tokens |-> <<<<116, 104, 114, 111, 119>>, <<98, 108, 97, 110, 107, 101, 116>>>>, tag |-> "product", confidence |-> 9500],  \* throw blanket
    [tokens |-> <<<<116, 104, 114, 111, 119>>, <<112, 105, 108, 108, 111, 119>>>>, tag |-> "product", confidence |-> 9500],  \* throw pillow
    [tokens |-> <<<<114, 111, 111, 102>>, <<115, 117, 110, 115, 104, 97, 100, 101>>>>, tag |-> "product", confidence |-> 9500],  \* roof sunshade
    [tokens |-> <<<<115, 117, 110>>, <<115, 104, 97, 100, 101>>>>, tag |-> "product", confidence |-> 9500],  \* sun shade
    [tokens |-> <<<<99, 97, 114>>, <<99, 111, 118, 101, 114>>>>, tag |-> "product", confidence |-> 9500],  \* car cover
    [tokens |-> <<<<115, 101, 97, 116>>, <<99, 111, 118, 101, 114>>>>, tag |-> "product", confidence |-> 9500],  \* seat cover
    [tokens |-> <<<<115, 101, 97, 116>>, <<99, 111, 118, 101, 114, 115>>>>, tag |-> "product", confidence |-> 9500],  \* seat covers
    [tokens |-> <<<<102, 108, 111, 111, 114>>, <<109, 97, 116, 115>>>>, tag |-> "product", confidence |-> 9500],  \* floor mats
    [tokens |-> <<<<102, 108, 111, 111, 114>>, <<109, 97, 116>>>>, tag |-> "product", confidence |-> 9500],  \* floor mat
    [tokens |-> <<<<115, 116, 101, 101, 114, 105, 110, 103>>, <<119, 104, 101, 101, 108>>, <<99, 111, 118, 101, 114>>>>, tag |-> "product", confidence |-> 9500],  \* steering wheel cover
    [tokens |-> <<<<112, 104, 111, 110, 101>>, <<104, 111, 108, 100, 101, 114>>>>, tag |-> "product", confidence |-> 9500],  \* phone holder
    [tokens |-> <<<<112, 104, 111, 110, 101>>, <<109, 111, 117, 110, 116>>>>, tag |-> "product", confidence |-> 9500],  \* phone mount
    [tokens |-> <<<<100, 97, 115, 104>>, <<99, 97, 109>>>>, tag |-> "product", confidence |-> 9500],  \* dash cam
    [tokens |-> <<<<100, 97, 115, 104>>, <<99, 97, 109, 101, 114, 97>>>>, tag |-> "product", confidence |-> 9500],  \* dash camera
    [tokens |-> <<<<112, 111, 119, 101, 114>>, <<98, 97, 110, 107>>>>, tag |-> "product", confidence |-> 9500],  \* power bank
    [tokens |-> <<<<99, 104, 97, 114, 103, 105, 110, 103>>, <<99, 97, 98, 108, 101>>>>, tag |-> "product", confidence |-> 9500],  \* charging cable
    [tokens |-> <<<<117, 115, 98>>, <<99, 97, 98, 108, 101>>>>, tag |-> "product", confidence |-> 9500],  \* usb cable
    [tokens |-> <<<<109, 111, 117, 115, 101>>, <<112, 97, 100>>>>, tag |-> "product", confidence |-> 9500],  \* mouse pad
    [tokens |-> <<<<107, 101, 121, 98, 111, 97, 114, 100>>, <<99, 111, 118, 101, 114>>>>, tag |-> "product", confidence |-> 9500],  \* keyboard cover
    [tokens |-> <<<<115, 99, 114, 101, 101, 110>>, <<112, 114, 111, 116, 101, 99, 116, 111, 114>>>>, tag |-> "product", confidence |-> 9500],  \* screen protector
    [tokens |-> <<<<112, 104, 111, 110, 101>>, <<99, 97, 115, 101>>>>, tag |-> "product", confidence |-> 9500],  \* phone case
    [tokens |-> <<<<116, 97, 98, 108, 101, 116>>, <<115, 116, 97, 110, 100>>>>, tag |-> "product", confidence |-> 9500],  \* tablet stand
    [tokens |-> <<<<108, 97, 112, 116, 111, 112>>, <<115, 116, 97, 110, 100>>>>, tag |-> "product", confidence |-> 9500],  \* laptop stand
    [tokens |-> <<<<109, 111, 110, 105, 116, 111, 114>>, <<115, 116, 97, 110, 100>>>>, tag |-> "product", confidence |-> 9500],  \* monitor stand
    [tokens |-> <<<<114, 105, 110, 103>>, <<108, 105, 103, 104, 116>>>>, tag |-> "product", confidence |-> 9500],  \* ring light
    [tokens |-> <<<<108, 101, 100>>, <<115, 116, 114, 105, 112>>>>, tag |-> "product", confidence |-> 9500],  \* led strip
    [tokens |-> <<<<108, 101, 100>>, <<108, 105, 103, 104, 116, 115>>>>, tag |-> "product", confidence |-> 9500],  \* led lights
    [tokens |-> <<<<102, 97, 105, 114, 121>>, <<108, 105, 103, 104, 116, 115>>>>, tag |-> "product", confidence |-> 9500],  \* fairy lights
    [tokens |-> <<<<115, 116, 114, 105, 110, 103>>, <<108, 105, 103, 104, 116, 115>>>>, tag |-> "product", confidence |-> 9500],  \* string lights
    [tokens |-> <<<<121, 111, 103, 97>>, <<109, 97, 116>>>>, tag |-> "product", confidence |-> 9500],  \* yoga mat
    [tokens |-> <<<<121, 111, 103, 97>>, <<112, 97, 110, 116, 115>>>>, tag |-> "product", confidence |-> 9500],  \* yoga pants
    [tokens |-> <<<<121, 111, 103, 97>>, <<98, 108, 111, 99, 107>>>>, tag |-> "product", confidence |-> 9500],  \* yoga block
    [tokens |-> <<<<114, 101, 115, 105, 115, 116, 97, 110, 99, 101>>, <<98, 97, 110, 100, 115>>>>, tag |-> "product", confidence |-> 9500],  \* resistance bands
    [tokens |-> <<<<114, 101, 115, 105, 115, 116, 97, 110, 99, 101>>, <<98, 97, 110, 100>>>>, tag |-> "product", confidence |-> 9500],  \* resistance band
    [tokens |-> <<<<106, 117, 109, 112>>, <<114, 111, 112, 101>>>>, tag |-> "product", confidence |-> 9500],  \* jump rope
    [tokens |-> <<<<101, 120, 101, 114, 99, 105, 115, 101>>, <<98, 97, 108, 108>>>>, tag |-> "product", confidence |-> 9500],  \* exercise ball
    [tokens |-> <<<<102, 111, 97, 109>>, <<114, 111, 108, 108, 101, 114>>>>, tag |-> "product", confidence |-> 9500],  \* foam roller
    [tokens |-> <<<<112, 117, 108, 108>>, <<117, 112>>, <<98, 97, 114>>>>, tag |-> "product", confidence |-> 9500],  \* pull up bar
    [tokens |-> <<<<97, 98>>, <<114, 111, 108, 108, 101, 114>>>>, tag |-> "product", confidence |-> 9500],  \* ab roller
    [tokens |-> <<<<99, 117, 116, 116, 105, 110, 103>>, <<98, 111, 97, 114, 100>>>>, tag |-> "product", confidence |-> 9500],  \* cutting board
    [tokens |-> <<<<99, 104, 111, 112, 112, 105, 110, 103>>, <<98, 111, 97, 114, 100>>>>, tag |-> "product", confidence |-> 9500],  \* chopping board
    [tokens |-> <<<<119, 97, 116, 101, 114>>, <<98, 111, 116, 116, 108, 101>>>>, tag |-> "product", confidence |-> 9500],  \* water bottle
    [tokens |-> <<<<99, 111, 102, 102, 101, 101>>, <<109, 117, 103>>>>, tag |-> "product", confidence |-> 9500],  \* coffee mug
    [tokens |-> <<<<116, 114, 97, 118, 101, 108>>, <<109, 117, 103>>>>, tag |-> "product", confidence |-> 9500],  \* travel mug
    [tokens |-> <<<<108, 117, 110, 99, 104>>, <<98, 111, 120>>>>, tag |-> "product", confidence |-> 9500],  \* lunch box
    [tokens |-> <<<<108, 117, 110, 99, 104>>, <<98, 97, 103>>>>, tag |-> "product", confidence |-> 9500],  \* lunch bag
    [tokens |-> <<<<105, 99, 101>>, <<99, 117, 98, 101>>, <<116, 114, 97, 121>>>>, tag |-> "product", confidence |-> 9500],  \* ice cube tray
    [tokens |-> <<<<115, 116, 111, 114, 97, 103, 101>>, <<99, 111, 110, 116, 97, 105, 110, 101, 114>>>>, tag |-> "product", confidence |-> 9500],  \* storage container
    [tokens |-> <<<<115, 116, 111, 114, 97, 103, 101>>, <<99, 111, 110, 116, 97, 105, 110, 101, 114, 115>>>>, tag |-> "product", confidence |-> 9500],  \* storage containers
    [tokens |-> <<<<102, 111, 111, 100>>, <<115, 116, 111, 114, 97, 103, 101>>>>, tag |-> "product", confidence |-> 9500],  \* food storage
    [tokens |-> <<<<116>>, <<115, 104, 105, 114, 116>>>>, tag |-> "product", confidence |-> 9500],  \* t shirt
    [tokens |-> <<<<116>>, <<45>>, <<115>>, <<104>>, <<105>>, <<114>>, <<116>>>>, tag |-> "product", confidence |-> 9500],  \* str 't-shirt'
    [tokens |-> <<<<116, 97, 110, 107>>, <<116, 111, 112>>>>, tag |-> "product", confidence |-> 9500],  \* tank top
    [tokens |-> <<<<112, 111, 108, 111>>, <<115, 104, 105, 114, 116>>>>, tag |-> "product", confidence |-> 9500],  \* polo shirt
    [tokens |-> <<<<100, 114, 101, 115, 115>>, <<115, 104, 105, 114, 116>>>>, tag |-> "product", confidence |-> 9500],  \* dress shirt
    [tokens |-> <<<<98, 117, 116, 116, 111, 110>>, <<100, 111, 119, 110>>, <<115, 104, 105, 114, 116>>>>, tag |-> "product", confidence |-> 9500],  \* button down shirt
    [tokens |-> <<<<99, 97, 114, 103, 111>>, <<112, 97, 110, 116, 115>>>>, tag |-> "product", confidence |-> 9500],  \* cargo pants
    [tokens |-> <<<<99, 97, 114, 103, 111>>, <<115, 104, 111, 114, 116, 115>>>>, tag |-> "product", confidence |-> 9500],  \* cargo shorts
    [tokens |-> <<<<115, 119, 101, 97, 116>>, <<112, 97, 110, 116, 115>>>>, tag |-> "product", confidence |-> 9500],  \* sweat pants
    [tokens |-> <<<<115>>, <<119>>, <<101>>, <<97>>, <<116>>, <<112>>, <<97>>, <<110>>, <<116>>, <<115>>>>, tag |-> "product", confidence |-> 9500],  \* str 'sweatpants'
    [tokens |-> <<<<115, 119, 101, 97, 116>>, <<115, 104, 105, 114, 116>>>>, tag |-> "product", confidence |-> 9500],  \* sweat shirt
    [tokens |-> <<<<115>>, <<119>>, <<101>>, <<97>>, <<116>>, <<115>>, <<104>>, <<105>>, <<114>>, <<116>>>>, tag |-> "product", confidence |-> 9500],  \* str 'sweatshirt'
    [tokens |-> <<<<114, 97, 105, 110>>, <<106, 97, 99, 107, 101, 116>>>>, tag |-> "product", confidence |-> 9500],  \* rain jacket
    [tokens |-> <<<<114, 97, 105, 110>>, <<99, 111, 97, 116>>>>, tag |-> "product", confidence |-> 9500],  \* rain coat
    [tokens |-> <<<<112, 117, 102, 102, 101, 114>>, <<106, 97, 99, 107, 101, 116>>>>, tag |-> "product", confidence |-> 9500],  \* puffer jacket
    [tokens |-> <<<<98, 111, 109, 98, 101, 114>>, <<106, 97, 99, 107, 101, 116>>>>, tag |-> "product", confidence |-> 9500],  \* bomber jacket
    [tokens |-> <<<<100, 101, 110, 105, 109>>, <<106, 97, 99, 107, 101, 116>>>>, tag |-> "product", confidence |-> 9500],  \* denim jacket
    [tokens |-> <<<<108, 101, 97, 116, 104, 101, 114>>, <<106, 97, 99, 107, 101, 116>>>>, tag |-> "product", confidence |-> 9500],  \* leather jacket
    [tokens |-> <<<<115, 112, 111, 114, 116, 115>>, <<98, 114, 97>>>>, tag |-> "product", confidence |-> 9500],  \* sports bra
    [tokens |-> <<<<114, 117, 110, 110, 105, 110, 103>>, <<115, 104, 111, 101, 115>>>>, tag |-> "product", confidence |-> 9500],  \* running shoes
    [tokens |-> <<<<104, 105, 107, 105, 110, 103>>, <<98, 111, 111, 116, 115>>>>, tag |-> "product", confidence |-> 9500],  \* hiking boots
    [tokens |-> <<<<97, 110, 107, 108, 101>>, <<98, 111, 111, 116, 115>>>>, tag |-> "product", confidence |-> 9500],  \* ankle boots
    [tokens |-> <<<<115, 110, 111, 119>>, <<98, 111, 111, 116, 115>>>>, tag |-> "product", confidence |-> 9500],  \* snow boots
    [tokens |-> <<<<114, 97, 105, 110>>, <<98, 111, 111, 116, 115>>>>, tag |-> "product", confidence |-> 9500],  \* rain boots
    [tokens |-> <<<<107, 110, 101, 101>>, <<104, 105, 103, 104>>, <<98, 111, 111, 116, 115>>>>, tag |-> "product", confidence |-> 9500],  \* knee high boots
    [tokens |-> <<<<102, 108, 105, 112>>, <<102, 108, 111, 112, 115>>>>, tag |-> "product", confidence |-> 9500],  \* flip flops
    [tokens |-> <<<<108, 97, 117, 102>>, <<115, 99, 104, 117, 104, 101>>>>, tag |-> "product", confidence |-> 9500],  \* lauf schuhe
    [tokens |-> <<<<115, 112, 111, 114, 116>>, <<115, 99, 104, 117, 104, 101>>>>, tag |-> "product", confidence |-> 9500],  \* sport schuhe
    [tokens |-> <<<<114, 101, 103, 101, 110>>, <<106, 97, 99, 107, 101>>>>, tag |-> "product", confidence |-> 9500],  \* regen jacke
    [tokens |-> <<<<115, 99, 104, 108, 97, 102>>, <<97, 110, 122, 117, 103>>>>, tag |-> "product", confidence |-> 9500],  \* schlaf anzug
    [tokens |-> <<<<98, 97, 100, 101>>, <<97, 110, 122, 117, 103>>>>, tag |-> "product", confidence |-> 9500],  \* bade anzug
    [tokens |-> <<<<115, 97, 99>>, <<224>>, <<100, 111, 115>>>>, tag |-> "product", confidence |-> 9500],  \* sac à dos
    [tokens |-> <<<<115, 97, 99>>, <<100, 101>>, <<118, 111, 121, 97, 103, 101>>>>, tag |-> "product", confidence |-> 9500],  \* sac de voyage
    [tokens |-> <<<<115, 97, 99>>, <<224>>, <<109, 97, 105, 110>>>>, tag |-> "product", confidence |-> 9500],  \* sac à main
    [tokens |-> <<<<99, 104, 97, 117, 115, 115, 117, 114, 101, 115>>, <<100, 101>>, <<99, 111, 117, 114, 115, 101>>>>, tag |-> "product", confidence |-> 9500],  \* chaussures de course
    [tokens |-> <<<<116, 97, 112, 105, 115>>, <<100, 101>>, <<121, 111, 103, 97>>>>, tag |-> "product", confidence |-> 9500],  \* tapis de yoga
    [tokens |-> <<<<98, 111, 108, 115, 97>>, <<100, 101>>, <<118, 105, 97, 106, 101>>>>, tag |-> "product", confidence |-> 9500],  \* bolsa de viaje
    [tokens |-> <<<<109, 111, 99, 104, 105, 108, 97>>, <<101, 115, 99, 111, 108, 97, 114>>>>, tag |-> "product", confidence |-> 9500],  \* mochila escolar
    [tokens |-> <<<<102, 117, 110, 100, 97>>, <<100, 101>>, <<97, 108, 109, 111, 104, 97, 100, 97>>>>, tag |-> "product", confidence |-> 9500],  \* funda de almohada
    [tokens |-> <<<<97, 108, 102, 111, 109, 98, 114, 105, 108, 108, 97>>, <<100, 101>>, <<114, 97, 116, 243, 110>>>>, tag |-> "product", confidence |-> 9500],  \* alfombrilla de ratón
    [tokens |-> <<<<99, 97, 114, 103, 97, 100, 111, 114>>, <<105, 110, 97, 108, 225, 109, 98, 114, 105, 99, 111>>>>, tag |-> "product", confidence |-> 9500],  \* cargador inalámbrico
    [tokens |-> <<<<108, 111, 110, 103>>, <<115, 108, 101, 101, 118, 101>>>>, tag |-> "attribute", confidence |-> 9000],  \* long sleeve
    [tokens |-> <<<<115, 104, 111, 114, 116>>, <<115, 108, 101, 101, 118, 101>>>>, tag |-> "attribute", confidence |-> 9000],  \* short sleeve
    [tokens |-> <<<<115>>, <<108>>, <<101>>, <<101>>, <<118>>, <<101>>, <<108>>, <<101>>, <<115>>, <<115>>>>, tag |-> "attribute", confidence |-> 9000],  \* str 'sleeveless'
    [tokens |-> <<<<99, 97, 112>>, <<115, 108, 101, 101, 118, 101>>>>, tag |-> "attribute", confidence |-> 9000],  \* cap sleeve
    [tokens |-> <<<<51, 47, 52>>, <<115, 108, 101, 101, 118, 101>>>>, tag |-> "attribute", confidence |-> 9000],  \* 3/4 sleeve
    [tokens |-> <<<<104, 105, 103, 104>>, <<119, 97, 105, 115, 116>>>>, tag |-> "attribute", confidence |-> 9000],  \* high waist
    [tokens |-> <<<<108, 111, 119>>, <<119, 97, 105, 115, 116>>>>, tag |-> "attribute", confidence |-> 9000],  \* low waist
    [tokens |-> <<<<109, 105, 100>>, <<119, 97, 105, 115, 116>>>>, tag |-> "attribute", confidence |-> 9000],  \* mid waist
    [tokens |-> <<<<104, 105, 103, 104>>, <<114, 105, 115, 101>>>>, tag |-> "attribute", confidence |-> 9000],  \* high rise
    [tokens |-> <<<<108, 111, 119>>, <<114, 105, 115, 101>>>>, tag |-> "attribute", confidence |-> 9000],  \* low rise
    [tokens |-> <<<<109, 105, 100>>, <<114, 105, 115, 101>>>>, tag |-> "attribute", confidence |-> 9000],  \* mid rise
    [tokens |-> <<<<115, 108, 105, 109>>, <<102, 105, 116>>>>, tag |-> "attribute", confidence |-> 9000],  \* slim fit
    [tokens |-> <<<<108, 111, 111, 115, 101>>, <<102, 105, 116>>>>, tag |-> "attribute", confidence |-> 9000],  \* loose fit
    [tokens |-> <<<<114, 101, 103, 117, 108, 97, 114>>, <<102, 105, 116>>>>, tag |-> "attribute", confidence |-> 9000],  \* regular fit
    [tokens |-> <<<<114, 101, 108, 97, 120, 101, 100>>, <<102, 105, 116>>>>, tag |-> "attribute", confidence |-> 9000],  \* relaxed fit
    [tokens |-> <<<<111, 118, 101, 114, 115, 105, 122, 101, 100>>, <<102, 105, 116>>>>, tag |-> "attribute", confidence |-> 9000],  \* oversized fit
    [tokens |-> <<<<118>>, <<110, 101, 99, 107>>>>, tag |-> "attribute", confidence |-> 9000],  \* v neck
    [tokens |-> <<<<99, 114, 101, 119>>, <<110, 101, 99, 107>>>>, tag |-> "attribute", confidence |-> 9000],  \* crew neck
    [tokens |-> <<<<114, 111, 117, 110, 100>>, <<110, 101, 99, 107>>>>, tag |-> "attribute", confidence |-> 9000],  \* round neck
    [tokens |-> <<<<115, 99, 111, 111, 112>>, <<110, 101, 99, 107>>>>, tag |-> "attribute", confidence |-> 9000],  \* scoop neck
    [tokens |-> <<<<109, 111, 99, 107>>, <<110, 101, 99, 107>>>>, tag |-> "attribute", confidence |-> 9000],  \* mock neck
    [tokens |-> <<<<116, 117, 114, 116, 108, 101>>, <<110, 101, 99, 107>>>>, tag |-> "attribute", confidence |-> 9000],  \* turtle neck
    [tokens |-> <<<<104>>, <<111>>, <<111>>, <<100>>, <<101>>, <<100>>>>, tag |-> "attribute", confidence |-> 9000],  \* str 'hooded'
    [tokens |-> <<<<122, 105, 112>>, <<117, 112>>>>, tag |-> "attribute", confidence |-> 9000],  \* zip up
    [tokens |-> <<<<98, 117, 116, 116, 111, 110>>, <<100, 111, 119, 110>>>>, tag |-> "attribute", confidence |-> 9000],  \* button down
    [tokens |-> <<<<112, 117, 108, 108>>, <<111, 110>>>>, tag |-> "attribute", confidence |-> 9000],  \* pull on
    [tokens |-> <<<<119, 105, 100, 101>>, <<108, 101, 103>>>>, tag |-> "attribute", confidence |-> 9000],  \* wide leg
    [tokens |-> <<<<115, 116, 114, 97, 105, 103, 104, 116>>, <<108, 101, 103>>>>, tag |-> "attribute", confidence |-> 9000],  \* straight leg
    [tokens |-> <<<<115, 107, 105, 110, 110, 121>>, <<108, 101, 103>>>>, tag |-> "attribute", confidence |-> 9000],  \* skinny leg
    [tokens |-> <<<<98>>, <<111>>, <<111>>, <<116>>, <<99>>, <<117>>, <<116>>>>, tag |-> "attribute", confidence |-> 9000],  \* str 'bootcut'
    [tokens |-> <<<<102, 117, 108, 108>>, <<108, 101, 110, 103, 116, 104>>>>, tag |-> "attribute", confidence |-> 9000],  \* full length
    [tokens |-> <<<<107, 110, 101, 101>>, <<108, 101, 110, 103, 116, 104>>>>, tag |-> "attribute", confidence |-> 9000],  \* knee length
    [tokens |-> <<<<97, 110, 107, 108, 101>>, <<108, 101, 110, 103, 116, 104>>>>, tag |-> "attribute", confidence |-> 9000],  \* ankle length
    [tokens |-> <<<<115, 116, 97, 105, 110, 108, 101, 115, 115>>, <<115, 116, 101, 101, 108>>>>, tag |-> "attribute", confidence |-> 9000],  \* stainless steel
    [tokens |-> <<<<109, 101, 109, 111, 114, 121>>, <<102, 111, 97, 109>>>>, tag |-> "attribute", confidence |-> 9000],  \* memory foam
    [tokens |-> <<<<102, 97, 117, 120>>, <<108, 101, 97, 116, 104, 101, 114>>>>, tag |-> "attribute", confidence |-> 9000],  \* faux leather
    [tokens |-> <<<<103, 101, 110, 117, 105, 110, 101>>, <<108, 101, 97, 116, 104, 101, 114>>>>, tag |-> "attribute", confidence |-> 9000],  \* genuine leather
    [tokens |-> <<<<114, 101, 97, 108>>, <<108, 101, 97, 116, 104, 101, 114>>>>, tag |-> "attribute", confidence |-> 9000],  \* real leather
    [tokens |-> <<<<112, 117>>, <<108, 101, 97, 116, 104, 101, 114>>>>, tag |-> "attribute", confidence |-> 9000],  \* pu leather
    [tokens |-> <<<<118, 101, 103, 97, 110>>, <<108, 101, 97, 116, 104, 101, 114>>>>, tag |-> "attribute", confidence |-> 9000],  \* vegan leather
    [tokens |-> <<<<99, 111, 116, 116, 111, 110>>, <<98, 108, 101, 110, 100>>>>, tag |-> "attribute", confidence |-> 9000],  \* cotton blend
    [tokens |-> <<<<98, 97, 109, 98, 111, 111>>, <<102, 105, 98, 101, 114>>>>, tag |-> "attribute", confidence |-> 9000],  \* bamboo fiber
    [tokens |-> <<<<109>>, <<105>>, <<99>>, <<114>>, <<111>>, <<102>>, <<105>>, <<98>>, <<101>>, <<114>>>>, tag |-> "attribute", confidence |-> 9000],  \* str 'microfiber'
    [tokens |-> <<<<102, 108, 101, 101, 99, 101>>, <<108, 105, 110, 101, 100>>>>, tag |-> "attribute", confidence |-> 9000],  \* fleece lined
    [tokens |-> <<<<115, 104, 101, 114, 112, 97>>, <<108, 105, 110, 101, 100>>>>, tag |-> "attribute", confidence |-> 9000],  \* sherpa lined
    [tokens |-> <<<<102, 117, 114>>, <<108, 105, 110, 101, 100>>>>, tag |-> "attribute", confidence |-> 9000],  \* fur lined
    [tokens |-> <<<<111, 112, 101, 110>>, <<101, 97, 114>>>>, tag |-> "attribute", confidence |-> 9000],  \* open ear
    [tokens |-> <<<<98, 111, 110, 101>>, <<99, 111, 110, 100, 117, 99, 116, 105, 111, 110>>>>, tag |-> "attribute", confidence |-> 9000],  \* bone conduction
    [tokens |-> <<<<116, 114, 117, 101>>, <<119, 105, 114, 101, 108, 101, 115, 115>>>>, tag |-> "attribute", confidence |-> 9000],  \* true wireless
    [tokens |-> <<<<116, 111, 117, 99, 104>>, <<115, 99, 114, 101, 101, 110>>>>, tag |-> "attribute", confidence |-> 9000],  \* touch screen
    [tokens |-> <<<<100, 117, 97, 108>>, <<108, 97, 121, 101, 114>>>>, tag |-> "attribute", confidence |-> 9000],  \* dual layer
    [tokens |-> <<<<100, 111, 117, 98, 108, 101>>, <<108, 97, 121, 101, 114>>>>, tag |-> "attribute", confidence |-> 9000],  \* double layer
    [tokens |-> <<<<115, 105, 110, 103, 108, 101>>, <<108, 97, 121, 101, 114>>>>, tag |-> "attribute", confidence |-> 9000],  \* single layer
    [tokens |-> <<<<113, 117, 105, 99, 107>>, <<100, 114, 121>>>>, tag |-> "feature", confidence |-> 9000],  \* quick dry
    [tokens |-> <<<<102, 97, 115, 116>>, <<100, 114, 121>>>>, tag |-> "feature", confidence |-> 9000],  \* fast dry
    [tokens |-> <<<<113, 117, 105, 99, 107>>, <<100, 114, 121, 105, 110, 103>>>>, tag |-> "feature", confidence |-> 9000],  \* quick drying
    [tokens |-> <<<<119, 97, 116, 101, 114>>, <<114, 101, 115, 105, 115, 116, 97, 110, 116>>>>, tag |-> "feature", confidence |-> 9000],  \* water resistant
    [tokens |-> <<<<119, 97, 116, 101, 114>>, <<112, 114, 111, 111, 102>>>>, tag |-> "feature", confidence |-> 9000],  \* water proof
    [tokens |-> <<<<119>>, <<97>>, <<116>>, <<101>>, <<114>>, <<112>>, <<114>>, <<111>>, <<111>>, <<102>>>>, tag |-> "feature", confidence |-> 9000],  \* str 'waterproof'
    [tokens |-> <<<<119, 105, 110, 100>>, <<112, 114, 111, 111, 102>>>>, tag |-> "feature", confidence |-> 9000],  \* wind proof
    [tokens |-> <<<<119>>, <<105>>, <<110>>, <<100>>, <<112>>, <<114>>, <<111>>, <<111>>, <<102>>>>, tag |-> "feature", confidence |-> 9000],  \* str 'windproof'
    [tokens |-> <<<<98>>, <<114>>, <<101>>, <<97>>, <<116>>, <<104>>, <<97>>, <<98>>, <<108>>, <<101>>>>, tag |-> "feature", confidence |-> 9000],  \* str 'breathable'
    [tokens |-> <<<<108>>, <<105>>, <<103>>, <<104>>, <<116>>, <<119>>, <<101>>, <<105>>, <<103>>, <<104>>, <<116>>>>, tag |-> "feature", confidence |-> 9000],  \* str 'lightweight'
    [tokens |-> <<<<108, 105, 103, 104, 116>>, <<119, 101, 105, 103, 104, 116>>>>, tag |-> "feature", confidence |-> 9000],  \* light weight
    [tokens |-> <<<<117, 108, 116, 114, 97>>, <<108, 105, 103, 104, 116>>>>, tag |-> "feature", confidence |-> 9000],  \* ultra light
    [tokens |-> <<<<110, 111, 105, 115, 101>>, <<99, 97, 110, 99, 101, 108, 108, 105, 110, 103>>>>, tag |-> "feature", confidence |-> 9000],  \* noise cancelling
    [tokens |-> <<<<110, 111, 105, 115, 101>>, <<99, 97, 110, 99, 101, 108, 105, 110, 103>>>>, tag |-> "feature", confidence |-> 9000],  \* noise canceling
    [tokens |-> <<<<115, 119, 101, 97, 116>>, <<112, 114, 111, 111, 102>>>>, tag |-> "feature", confidence |-> 9000],  \* sweat proof
    [tokens |-> <<<<115, 119, 101, 97, 116>>, <<114, 101, 115, 105, 115, 116, 97, 110, 116>>>>, tag |-> "feature", confidence |-> 9000],  \* sweat resistant
    [tokens |-> <<<<97, 110, 116, 105>>, <<115, 108, 105, 112>>>>, tag |-> "feature", confidence |-> 9000],  \* anti slip
    [tokens |-> <<<<110, 111, 110>>, <<115, 108, 105, 112>>>>, tag |-> "feature", confidence |-> 9000],  \* non slip
    [tokens |-> <<<<97, 110, 116, 105>>, <<115, 107, 105, 100>>>>, tag |-> "feature", confidence |-> 9000],  \* anti skid
    [tokens |-> <<<<117, 118>>, <<112, 114, 111, 116, 101, 99, 116, 105, 111, 110>>>>, tag |-> "feature", confidence |-> 9000],  \* uv protection
    [tokens |-> <<<<115, 117, 110>>, <<112, 114, 111, 116, 101, 99, 116, 105, 111, 110>>>>, tag |-> "feature", confidence |-> 9000],  \* sun protection
    [tokens |-> <<<<115, 112, 102>>, <<112, 114, 111, 116, 101, 99, 116, 105, 111, 110>>>>, tag |-> "feature", confidence |-> 9000],  \* spf protection
    [tokens |-> <<<<119, 114, 105, 110, 107, 108, 101>>, <<102, 114, 101, 101>>>>, tag |-> "feature", confidence |-> 9000],  \* wrinkle free
    [tokens |-> <<<<115, 116, 97, 105, 110>>, <<114, 101, 115, 105, 115, 116, 97, 110, 116>>>>, tag |-> "feature", confidence |-> 9000],  \* stain resistant
    [tokens |-> <<<<111, 100, 111, 114>>, <<114, 101, 115, 105, 115, 116, 97, 110, 116>>>>, tag |-> "feature", confidence |-> 9000],  \* odor resistant
    [tokens |-> <<<<115, 99, 114, 97, 116, 99, 104>>, <<114, 101, 115, 105, 115, 116, 97, 110, 116>>>>, tag |-> "feature", confidence |-> 9000],  \* scratch resistant
    [tokens |-> <<<<115, 104, 111, 99, 107>>, <<112, 114, 111, 111, 102>>>>, tag |-> "feature", confidence |-> 9000],  \* shock proof
    [tokens |-> <<<<115>>, <<104>>, <<111>>, <<99>>, <<107>>, <<112>>, <<114>>, <<111>>, <<111>>, <<102>>>>, tag |-> "feature", confidence |-> 9000],  \* str 'shockproof'
    [tokens |-> <<<<100, 114, 111, 112>>, <<112, 114, 111, 111, 102>>>>, tag |-> "feature", confidence |-> 9000],  \* drop proof
    [tokens |-> <<<<100, 117, 115, 116>>, <<112, 114, 111, 111, 102>>>>, tag |-> "feature", confidence |-> 9000],  \* dust proof
    [tokens |-> <<<<109, 97, 99, 104, 105, 110, 101>>, <<119, 97, 115, 104, 97, 98, 108, 101>>>>, tag |-> "feature", confidence |-> 9000],  \* machine washable
    [tokens |-> <<<<101, 97, 115, 121>>, <<99, 108, 101, 97, 110>>>>, tag |-> "feature", confidence |-> 9000],  \* easy clean
    [tokens |-> <<<<101, 97, 115, 121>>, <<116, 111>>, <<99, 108, 101, 97, 110>>>>, tag |-> "feature", confidence |-> 9000],  \* easy to clean
    [tokens |-> <<<<104, 101, 97, 118, 121>>, <<100, 117, 116, 121>>>>, tag |-> "feature", confidence |-> 9000],  \* heavy duty
    [tokens |-> <<<<108, 111, 110, 103>>, <<108, 97, 115, 116, 105, 110, 103>>>>, tag |-> "feature", confidence |-> 9000],  \* long lasting
    [tokens |-> <<<<102, 97, 115, 116>>, <<99, 104, 97, 114, 103, 105, 110, 103>>>>, tag |-> "feature", confidence |-> 9000],  \* fast charging
    [tokens |-> <<<<113, 117, 105, 99, 107>>, <<99, 104, 97, 114, 103, 101>>>>, tag |-> "feature", confidence |-> 9000],  \* quick charge
    [tokens |-> <<<<107, 105, 110, 103>>, <<115, 105, 122, 101>>>>, tag |-> "size", confidence |-> 9000],  \* king size
    [tokens |-> <<<<113, 117, 101, 101, 110>>, <<115, 105, 122, 101>>>>, tag |-> "size", confidence |-> 9000],  \* queen size
    [tokens |-> <<<<102, 117, 108, 108>>, <<115, 105, 122, 101>>>>, tag |-> "size", confidence |-> 9000],  \* full size
    [tokens |-> <<<<116, 119, 105, 110>>, <<115, 105, 122, 101>>>>, tag |-> "size", confidence |-> 9000],  \* twin size
    [tokens |-> <<<<101, 120, 116, 114, 97>>, <<108, 97, 114, 103, 101>>>>, tag |-> "size", confidence |-> 9000],  \* extra large
    [tokens |-> <<<<101, 120, 116, 114, 97>>, <<115, 109, 97, 108, 108>>>>, tag |-> "size", confidence |-> 9000],  \* extra small
    [tokens |-> <<<<112, 108, 117, 115>>, <<115, 105, 122, 101>>>>, tag |-> "size", confidence |-> 9000],  \* plus size
    [tokens |-> <<<<111, 110, 101>>, <<115, 105, 122, 101>>>>, tag |-> "size", confidence |-> 9000],  \* one size
    [tokens |-> <<<<119, 111, 114, 107>>, <<111, 117, 116>>>>, tag |-> "scenario", confidence |-> 8500],  \* work out
    [tokens |-> <<<<119, 111, 114, 107>>, <<102, 114, 111, 109>>, <<104, 111, 109, 101>>>>, tag |-> "scenario", confidence |-> 8500],  \* work from home
    [tokens |-> <<<<111, 117, 116, 100, 111, 111, 114>>, <<115, 112, 111, 114, 116, 115>>>>, tag |-> "scenario", confidence |-> 8500],  \* outdoor sports
    [tokens |-> <<<<111, 117, 116, 100, 111, 111, 114>>, <<97, 99, 116, 105, 118, 105, 116, 105, 101, 115>>>>, tag |-> "scenario", confidence |-> 8500],  \* outdoor activities
    [tokens |-> <<<<114, 111, 97, 100>>, <<116, 114, 105, 112>>>>, tag |-> "scenario", confidence |-> 8500],  \* road trip
    [tokens |-> <<<<98, 101, 97, 99, 104>>, <<118, 97, 99, 97, 116, 105, 111, 110>>>>, tag |-> "scenario", confidence |-> 8500],  \* beach vacation
    [tokens |-> <<<<98, 97, 99, 107>>, <<116, 111>>, <<115, 99, 104, 111, 111, 108>>>>, tag |-> "scenario", confidence |-> 8500],  \* back to school
    [tokens |-> <<<<100, 97, 105, 108, 121>>, <<117, 115, 101>>>>, tag |-> "scenario", confidence |-> 8500],  \* daily use
    [tokens |-> <<<<101, 118, 101, 114, 121, 100, 97, 121>>, <<117, 115, 101>>>>, tag |-> "scenario", confidence |-> 8500],  \* everyday use
    [tokens |-> <<<<98, 105, 103>>, <<97, 110, 100>>, <<116, 97, 108, 108>>>>, tag |-> "audience", confidence |-> 9000],  \* big and tall
    [tokens |-> <<<<112, 101, 116, 105, 116, 101>>, <<119, 111, 109, 101, 110>>>>, tag |-> "audience", confidence |-> 9000],  \* petite women
    [tokens |-> <<<<112, 108, 117, 115>>, <<115, 105, 122, 101>>, <<119, 111, 109, 101, 110>>>>, tag |-> "audience", confidence |-> 9000],  \* plus size women
    [tokens |-> <<<<121, 111, 117, 110, 103>>, <<97, 100, 117, 108, 116, 115>>>>, tag |-> "audience", confidence |-> 9000],  \* young adults
    [tokens |-> <<<<116, 101, 101, 110>>, <<103, 105, 114, 108, 115>>>>, tag |-> "audience", confidence |-> 9000],  \* teen girls
    [tokens |-> <<<<116, 101, 101, 110>>, <<98, 111, 121, 115>>>>, tag |-> "audience", confidence |-> 9000],  \* teen boys
    [tokens |-> <<<<108, 105, 116, 116, 108, 101>>, <<103, 105, 114, 108, 115>>>>, tag |-> "audience", confidence |-> 9000],  \* little girls
    [tokens |-> <<<<108, 105, 116, 116, 108, 101>>, <<98, 111, 121, 115>>>>, tag |-> "audience", confidence |-> 9000],  \* little boys
    [tokens |-> <<<<109, 105, 116>>, <<107, 97, 112, 117, 122, 101>>>>, tag |-> "attribute", confidence |-> 9000],  \* mit kapuze
    [tokens |-> <<<<109, 105, 116>>, <<116, 97, 115, 99, 104, 101, 110>>>>, tag |-> "attribute", confidence |-> 9000],  \* mit taschen
    [tokens |-> <<<<109, 105, 116>>, <<114, 101, 105, 223, 118, 101, 114, 115, 99, 104, 108, 117, 115, 115>>>>, tag |-> "attribute", confidence |-> 9000],  \* mit reißverschluss
    [tokens |-> <<<<104, 111, 104, 101>>, <<116, 97, 105, 108, 108, 101>>>>, tag |-> "attribute", confidence |-> 9000],  \* hohe taille
    [tokens |-> <<<<104, 111, 104, 101, 114>>, <<98, 117, 110, 100>>>>, tag |-> "attribute", confidence |-> 9000],  \* hoher bund
    [tokens |-> <<<<108, 97, 110, 103, 101>>, <<228, 114, 109, 101, 108>>>>, tag |-> "attribute", confidence |-> 9000],  \* lange ärmel
    [tokens |-> <<<<107, 117, 114, 122, 101>>, <<228, 114, 109, 101, 108>>>>, tag |-> "attribute", confidence |-> 9000],  \* kurze ärmel
    [tokens |-> <<<<111, 104, 110, 101>>, <<228, 114, 109, 101, 108>>>>, tag |-> "attribute", confidence |-> 9000],  \* ohne ärmel
    [tokens |-> <<<<115, 99, 104, 110, 101, 108, 108>>, <<116, 114, 111, 99, 107, 110, 101, 110, 100>>>>, tag |-> "feature", confidence |-> 9000],  \* schnell trocknend
    [tokens |-> <<<<116, 97, 105, 108, 108, 101>>, <<104, 97, 117, 116, 101>>>>, tag |-> "attribute", confidence |-> 9000],  \* taille haute
    [tokens |-> <<<<116, 97, 105, 108, 108, 101>>, <<98, 97, 115, 115, 101>>>>, tag |-> "attribute", confidence |-> 9000],  \* taille basse
    [tokens |-> <<<<109, 97, 110, 99, 104, 101, 115>>, <<108, 111, 110, 103, 117, 101, 115>>>>, tag |-> "attribute", confidence |-> 9000],  \* manches longues
    [tokens |-> <<<<109, 97, 110, 99, 104, 101, 115>>, <<99, 111, 117, 114, 116, 101, 115>>>>, tag |-> "attribute", confidence |-> 9000],  \* manches courtes
    [tokens |-> <<<<115, 97, 110, 115>>, <<109, 97, 110, 99, 104, 101, 115>>>>, tag |-> "attribute", confidence |-> 9000],  \* sans manches
    [tokens |-> <<<<115, 111, 117, 115>>, <<108, 105, 116>>>>, tag |-> "attribute", confidence |-> 9000],  \* sous lit
    [tokens |-> <<<<224>>, <<114, 111, 117, 108, 101, 116, 116, 101, 115>>>>, tag |-> "attribute", confidence |-> 9000],  \* à roulettes
    [tokens |-> <<<<112, 111, 117, 114>>, <<102, 101, 109, 109, 101>>>>, tag |-> "audience", confidence |-> 9000],  \* pour femme
    [tokens |-> <<<<112, 111, 117, 114>>, <<104, 111, 109, 109, 101>>>>, tag |-> "audience", confidence |-> 9000],  \* pour homme
    [tokens |-> <<<<112, 111, 117, 114>>, <<101, 110, 102, 97, 110, 116>>>>, tag |-> "audience", confidence |-> 9000],  \* pour enfant
    [tokens |-> <<<<109, 97, 110, 103, 97>>, <<108, 97, 114, 103, 97>>>>, tag |-> "attribute", confidence |-> 9000],  \* manga larga
    [tokens |-> <<<<109, 97, 110, 103, 97>>, <<99, 111, 114, 116, 97>>>>, tag |-> "attribute", confidence |-> 9000],  \* manga corta
    [tokens |-> <<<<115, 105, 110>>, <<109, 97, 110, 103, 97, 115>>>>, tag |-> "attribute", confidence |-> 9000],  \* sin mangas
    [tokens |-> <<<<99, 105, 110, 116, 117, 114, 97>>, <<97, 108, 116, 97>>>>, tag |-> "attribute", confidence |-> 9000],  \* cintura alta
    [tokens |-> <<<<99, 105, 110, 116, 117, 114, 97>>, <<98, 97, 106, 97>>>>, tag |-> "attribute", confidence |-> 9000],  \* cintura baja
    [tokens |-> <<<<116, 97, 108, 108, 97>>, <<103, 114, 97, 110, 100, 101>>>>, tag |-> "size", confidence |-> 9000],  \* talla grande
    [tokens |-> <<<<112, 97, 114, 97>>, <<109, 117, 106, 101, 114>>>>, tag |-> "audience", confidence |-> 9000],  \* para mujer
    [tokens |-> <<<<112, 97, 114, 97>>, <<104, 111, 109, 98, 114, 101>>>>, tag |-> "audience", confidence |-> 9000],  \* para hombre
    [tokens |-> <<<<112, 97, 114, 97>>, <<110, 105, 241, 111, 115>>>>, tag |-> "audience", confidence |-> 9000]  \* para niños
  }


(***************************************************************************)
(* core/phrase_merger.py                                                   *)
(***************************************************************************)

\* PhraseMerger.add_phrase applied to every default phrase: the key is the
\* tuple of the lower-cased items of the key it is given.
phrases ==
  {[tokens |-> [k \in 1..Len(p.tokens) |-> lower(p.tokens[k])],
    tag |-> p.tag, confidence |-> p.confidence] : p \in default_phrases}

\* PhraseMerger.max_phrase_len after _load_default_phrases (it starts at 1)
max_phrase_len ==
  LET lens == {Len(p.tokens) : p \in phrases} \cup {1}
  IN CHOOSE n \in lens : \A m \in lens : m <= n

phrase_keys == {p.tokens : p \in phrases}
phrase_entry(key) == CHOOSE p \in phrases : p.tokens = key

lower_all(toks) == [k \in 1..Len(toks) |-> lower(toks[k])]

\* A merger that prefers the shortest phrase: what C9 tells apart from match_phrase_len
Variant_shortest_phrase_len(toks, i, phrase_len) ==
  LET hits == {l \in 1..phrase_len : lower_all(SubSeq(toks, i + 1, i + l)) \in phrase_keys}
  IN IF hits = {} THEN 0 ELSE CHOOSE l \in hits : \A m \in hits : l <= m

\* The for loop of PhraseMerger.merge at index i: phrase lengths from
\* phrase_len down to 1, the first whose lower-cased tuple is a key; 0 if none.
RECURSIVE match_phrase_len(_, _, _)
match_phrase_len(toks, i, phrase_len) ==
  IF phrase_len <= 0 THEN 0
  ELSE IF lower_all(SubSeq(toks, i + 1, i + phrase_len)) \in phrase_keys THEN phrase_len
  ELSE match_phrase_len(toks, i, phrase_len - 1)

\* The while loop of PhraseMerger.merge from index i
RECURSIVE merge_loop(_, _)
merge_loop(toks, i) ==
  IF i >= Len(toks) THEN <<>>
  ELSE LET n == match_phrase_len(toks, i, Min(max_phrase_len, Len(toks) - i)) IN
       IF n > 0
       THEN LET orig == SubSeq(toks, i + 1, i + n)
                e == phrase_entry(lower_all(orig))
            IN <<[text |-> Join(<<32>>, orig), original_tokens |-> orig,
                  start_idx |-> i, end_idx |-> i + n, is_merged |-> (n > 1),
                  suggested_tag |-> e.tag, confidence |-> e.confidence]>>
               \o merge_loop(toks, i + n)
       ELSE <<[text |-> toks[i + 1], original_tokens |-> <<toks[i + 1]>>,
               start_idx |-> i, end_idx |-> i + 1, is_merged |-> FALSE,
               suggested_tag |-> "None", confidence |-> 0]>>
            \o merge_loop(toks, i + 1)

\* A merger that keeps the lower-cased candidate as original_tokens: what C21 tells apart from merge
Variant_merge_lowered_originals(toks) ==
  IF toks = <<>> THEN <<>>
  ELSE [k \in 1..Len(merge_loop(toks, 0)) |->
          [merge_loop(toks, 0)[k] EXCEPT !.original_tokens = lower_all(@)]]

\* PhraseMerger.merge
merge(toks) == IF toks = <<>> THEN <<>> ELSE merge_loop(toks, 0)


(***************************************************************************)
(* core/tokenizers                                                         *)
(***************************************************************************)

\* the separator class [\s,;:!?()[\]{}] of EuropeanTokenizer.tokenize
is_separator(c) == isspace(c) \/ c \in {44, 59, 58, 33, 63, 40, 41, 91, 93, 123, 125}

is_hyphen(c) == c = 45

\* str.split / re.split: the pieces between separators, empty ones included
\* (hyphen = TRUE: word.split('-'); FALSE: re.split on the separator class,
\* where a run of separators yields empty pieces that the caller drops)
RECURSIVE split_on(_, _, _)
split_on(text, hyphen, cur) ==
  IF text = <<>> THEN <<cur>>
  ELSE IF (IF hyphen THEN is_hyphen(Head(text)) ELSE is_separator(Head(text)))
       THEN <<cur>> \o split_on(Tail(text), hyphen, <<>>)
       ELSE split_on(Tail(text), hyphen, Append(cur, Head(text)))

nonempty(ss) == SelectSeq(ss, LAMBDA w : w # <<>>)

\* EuropeanTokenizer._handle_hyphens for one word
handle_hyphen_word(word) ==
  IF \E k \in 1..Len(word) : word[k] = 45
  THEN LET parts == split_on(word, TRUE, <<>>) IN
       IF (\A k \in 1..Len(parts) : Len(parts[k]) <= 10) /\ Len(parts) <= 3
       THEN <<word>> ELSE parts
  ELSE <<word>>

\* EuropeanTokenizer.tokenize (language = ENGLISH, so no French elision step)
european_tokenize(text) ==
  IF text = <<>> THEN <<>>
  ELSE LET words == nonempty(split_on(text, FALSE, <<>>))
       IN nonempty(Concat([k \in 1..Len(words) |-> handle_hyphen_word(words[k])]))

\* ChineseTokenizer.tokenize / JapaneseTokenizer.tokenize wrap an external
\* morphological analyzer: which contiguous pieces it returns is not decided
\* by this repository.  cuts is the set of text offsets at which the analyzer
\* splits; every piece is stripped and empty pieces are dropped.
RECURSIVE cut_pieces(_, _, _, _)
cut_pieces(text, start, cuts, cur) ==
  IF text = <<>> THEN <<cur>>
  ELSE IF cur # <<>> /\ start \in cuts
       THEN <<cur>> \o cut_pieces(Tail(text), start + 1, cuts, <<Head(text)>>)
       ELSE cut_pieces(Tail(text), start + 1, cuts, Append(cur, Head(text)))

external_tokenize(text, start, cuts) ==
  IF text = <<>> THEN <<>>
  ELSE LET pieces == cut_pieces(text, start, cuts, <<>>)
       IN nonempty([k \in 1..Len(pieces) |-> strip(pieces[k])])


(***************************************************************************)
(* services/dictionary_manager.py.  dicts maps each of the nine dictionary *)
(* names to its "entries" list; an entry is [word, confidence].  index is  *)
(* _word_index as a set of <<lower-cased word, dictionary name>>.          *)
(***************************************************************************)
dict_files ==
  <<"brands", "brands_zh", "brands_ja", "products", "audiences", "scenarios",
    "colors", "features", "attributes">>

DictNames == {dict_files[k] : k \in 1..Len(dict_files)}

\* DictionaryManager._load_dictionary: the index built from the loaded files
load_index(dicts) ==
  UNION {{<<lower(dicts[d][k].word), d>> : k \in {j \in 1..Len(dicts[d]) : dicts[d][j].word # <<>>}}
         : d \in DictNames}

\* DictionaryManager.get_entries (every name is a key of _dictionaries after load_all)
get_entries(dicts, dict_name) == dicts[dict_name]

\* DictionaryManager.get_all_words
get_all_words(dicts, dict_name) ==
  {get_entries(dicts, dict_name)[k].word : k \in 1..Len(get_entries(dicts, dict_name))} \ {<<>>}

\* DictionaryManager.get_entry: the first entry whose lower-cased word matches; "None" if none
get_entry(dicts, dict_name, word) ==
  LET entries == get_entries(dicts, dict_name)
      hits == {k \in 1..Len(entries) : lower(entries[k].word) = lower(word)}
  IN IF hits = {} THEN [found |-> FALSE, word |-> <<>>, confidence |-> 0]
     ELSE LET k == CHOOSE k \in hits : \A j \in hits : k <= j
          IN [found |-> TRUE, word |-> entries[k].word, confidence |-> entries[k].confidence]

\* DictionaryManager.contains
contains(index, dict_name, word) ==
  LET word_lower == lower(word) IN
  \/ <<word_lower, dict_name>> \in index
  \/ /\ dict_name = "brands"
     /\ \E d \in {"brands", "brands_zh", "brands_ja"} : <<word_lower, d>> \in index


\* DictionaryManager._get_dict_name_for_tag
get_dict_name_for_tag(label, lang) ==
  LET base_name == CASE label = "brand" -> "brands"
                     [] label = "product" -> "products"
                     [] label = "audience" -> "audiences"
                     [] label = "scenario" -> "scenarios"
                     [] label = "color" -> "colors"
                     [] label = "feature" -> "features"
                     [] OTHER -> "attributes"
  IN IF base_name = "brands" /\ lang # "global"
     THEN IF lang = "zh" THEN "brands_zh" ELSE "brands_ja"
     ELSE base_name

\* add_entry: the word is already in the target dictionary
has_entry(entries, word) == \E k \in 1..Len(entries) : lower(entries[k].word) = lower(word)

\* add_entry, the list it leaves in memory: the first matching entry updated, else one appended
entries_after_add(entries, word, confidence) ==
  IF has_entry(entries, word)
  THEN LET k == CHOOSE k \in 1..Len(entries) :
                  /\ lower(entries[k].word) = lower(word)
                  /\ \A j \in 1..(k - 1) : lower(entries[j].word) # lower(word)
       IN [entries EXCEPT ![k].confidence = confidence]
  ELSE Append(entries, [word |-> word, confidence |-> confidence])

\* remove_entry: the list rebuilt without the word
entries_after_remove(entries, word) ==
  SelectSeq(entries, LAMBDA e : lower(e.word) # lower(word))

\* _save_dictionary: the file of dict_name rewritten with the entries given
save_dictionary(saved, dict_name, entries) ==
  [d \in (DOMAIN saved) \cup {dict_name} |-> IF d = dict_name THEN entries ELSE saved[d]]

\* SpanishNormalizer.__init__
no_normalize ==
  {
    <<97, 110, 116, 101, 115>>,  \* antes
    <<97, 110, 225, 108, 105, 115, 105, 115>>,  \* análisis
    <<97, 115>>,  \* as
    <<98, 111, 110, 117, 115>>,  \* bonus
    <<98, 117, 115>>,  \* bus
    <<99, 97, 109, 112, 117, 115>>,  \* campus
    <<99, 111, 114, 112, 117, 115>>,  \* corpus
    <<99, 114, 105, 115, 105, 115>>,  \* crisis
    <<100, 105, 101, 122>>,  \* diez
    <<100, 111, 115>>,  \* dos
    <<101, 115>>,  \* es
    <<103, 97, 115>>,  \* gas
    <<106, 117, 101, 118, 101, 115>>,  \* jueves
    <<108, 117, 110, 101, 115>>,  \* lunes
    <<109, 97, 114, 116, 101, 115>>,  \* martes
    <<109, 101, 110, 111, 115>>,  \* menos
    <<109, 105, 233, 114, 99, 111, 108, 101, 115>>,  \* miércoles
    <<109, 225, 115>>,  \* más
    <<111, 115>>,  \* os
    <<112, 108, 117, 115>>,  \* plus
    <<115, 101, 105, 115>>,  \* seis
    <<115, 116, 97, 116, 117, 115>>,  \* status
    <<115, 237, 110, 116, 101, 115, 105, 115>>,  \* síntesis
    <<116, 101, 115, 105, 115>>,  \* tesis
    <<116, 114, 97, 115>>,  \* tras
    <<116, 114, 101, 115>>,  \* tres
    <<118, 105, 101, 114, 110, 101, 115>>,  \* viernes
    <<118, 105, 114, 117, 115>>,  \* virus
    <<233, 110, 102, 97, 115, 105, 115>>  \* énfasis
  }

irregular_plurals ==
  {
    [key |-> <<112, 105, 101, 115>>, text |-> <<112, 105, 101>>],  \* pies -> pie
    [key |-> <<108, 117, 99, 101, 115>>, text |-> <<108, 117, 122>>],  \* luces -> luz
    [key |-> <<118, 111, 99, 101, 115>>, text |-> <<118, 111, 122>>],  \* voces -> voz
    [key |-> <<112, 101, 99, 101, 115>>, text |-> <<112, 101, 122>>],  \* peces -> pez
    [key |-> <<110, 117, 101, 99, 101, 115>>, text |-> <<110, 117, 101, 122>>],  \* nueces -> nuez
    [key |-> <<114, 97, 237, 99, 101, 115>>, text |-> <<114, 97, 237, 122>>],  \* raíces -> raíz
    [key |-> <<108, 225, 112, 105, 99, 101, 115>>, text |-> <<108, 225, 112, 105, 122>>]  \* lápices -> lápiz
  }

adjective_masculine ==
  {
    <<97, 106, 117, 115, 116, 97, 98, 108, 101>>,  \* ajustable
    <<97, 108, 116, 111>>,  \* alto
    <<97, 109, 97, 114, 105, 108, 108, 111>>,  \* amarillo
    <<97, 110, 99, 104, 111>>,  \* ancho
    <<97, 117, 116, 111, 109, 225, 116, 105, 99, 111>>,  \* automático
    <<97, 122, 117, 108>>,  \* azul
    <<98, 97, 106, 111>>,  \* bajo
    <<98, 97, 114, 97, 116, 111>>,  \* barato
    <<98, 108, 97, 110, 99, 111>>,  \* blanco
    <<98, 108, 97, 110, 100, 111>>,  \* blando
    <<98, 108, 117, 101, 116, 111, 111, 116, 104>>,  \* bluetooth
    <<98, 111, 110, 105, 116, 111>>,  \* bonito
    <<98, 114, 105, 108, 108, 97, 110, 116, 101>>,  \* brillante
    <<98, 117, 101, 110, 111>>,  \* bueno
    <<99, 97, 108, 105, 101, 110, 116, 101>>,  \* caliente
    <<99, 97, 114, 111>>,  \* caro
    <<99, 97, 115, 117, 97, 108>>,  \* casual
    <<99, 101, 114, 225, 109, 105, 99, 111>>,  \* cerámico
    <<99, 108, 225, 115, 105, 99, 111>>,  \* clásico
    <<99, 111, 109, 101, 114, 99, 105, 97, 108>>,  \* comercial
    <<99, 111, 114, 116, 111>>,  \* corto
    <<99, 117, 97, 100, 114, 97, 100, 111>>,  \* cuadrado
    <<99, 243, 109, 111, 100, 111>>,  \* cómodo
    <<100, 101, 108, 103, 97, 100, 111>>,  \* delgado
    <<100, 101, 112, 111, 114, 116, 105, 118, 111>>,  \* deportivo
    <<100, 101, 115, 101, 99, 104, 97, 98, 108, 101>>,  \* desechable
    <<100, 105, 103, 105, 116, 97, 108>>,  \* digital
    <<100, 111, 109, 233, 115, 116, 105, 99, 111>>,  \* doméstico
    <<100, 117, 114, 97, 100, 101, 114, 111>>,  \* duradero
    <<100, 117, 114, 111>>,  \* duro
    <<101, 99, 111, 110, 243, 109, 105, 99, 111>>,  \* económico
    <<101, 108, 101, 99, 116, 114, 243, 110, 105, 99, 111>>,  \* electrónico
    <<101, 108, 101, 103, 97, 110, 116, 101>>,  \* elegante
    <<101, 108, 233, 99, 116, 114, 105, 99, 111>>,  \* eléctrico
    <<101, 114, 103, 111, 110, 243, 109, 105, 99, 111>>,  \* ergonómico
    <<101, 115, 116, 114, 101, 99, 104, 111>>,  \* estrecho
    <<102, 101, 111>>,  \* feo
    <<102, 105, 110, 111>>,  \* fino
    <<102, 111, 114, 109, 97, 108>>,  \* formal
    <<102, 114, 225, 103, 105, 108>>,  \* frágil
    <<102, 114, 237, 111>>,  \* frío
    <<102, 117, 110, 99, 105, 111, 110, 97, 108>>,  \* funcional
    <<103, 111, 114, 100, 111>>,  \* gordo
    <<103, 114, 97, 110, 100, 101>>,  \* grande
    <<103, 114, 117, 101, 115, 111>>,  \* grueso
    <<104, 250, 109, 101, 100, 111>>,  \* húmedo
    <<105, 109, 112, 101, 114, 109, 101, 97, 98, 108, 101>>,  \* impermeable
    <<105, 110, 97, 108, 225, 109, 98, 114, 105, 99, 111>>,  \* inalámbrico
    <<105, 110, 100, 117, 115, 116, 114, 105, 97, 108>>,  \* industrial
    <<105, 110, 116, 101, 108, 105, 103, 101, 110, 116, 101>>,  \* inteligente
    <<108, 97, 114, 103, 111>>,  \* largo
    <<108, 97, 118, 97, 98, 108, 101>>,  \* lavable
    <<108, 101, 110, 116, 111>>,  \* lento
    <<108, 105, 103, 101, 114, 111>>,  \* ligero
    <<108, 105, 109, 112, 105, 111>>,  \* limpio
    <<109, 97, 108, 111>>,  \* malo
    <<109, 97, 110, 117, 97, 108>>,  \* manual
    <<109, 97, 116, 101>>,  \* mate
    <<109, 101, 116, 225, 108, 105, 99, 111>>,  \* metálico
    <<109, 111, 100, 101, 114, 110, 111>>,  \* moderno
    <<109, 111, 106, 97, 100, 111>>,  \* mojado
    <<110, 101, 103, 114, 111>>,  \* negro
    <<110, 117, 101, 118, 111>>,  \* nuevo
    <<111, 112, 97, 99, 111>>,  \* opaco
    <<111, 118, 97, 108, 97, 100, 111>>,  \* ovalado
    <<112, 101, 113, 117, 101, 241, 111>>,  \* pequeño
    <<112, 101, 115, 97, 100, 111>>,  \* pesado
    <<112, 108, 101, 103, 97, 98, 108, 101>>,  \* plegable
    <<112, 108, 225, 115, 116, 105, 99, 111>>,  \* plástico
    <<112, 111, 114, 116, 225, 116, 105, 108>>,  \* portátil
    <<112, 114, 111, 102, 101, 115, 105, 111, 110, 97, 108>>,  \* profesional
    <<112, 114, 225, 99, 116, 105, 99, 111>>,  \* práctico
    <<114, 101, 99, 97, 114, 103, 97, 98, 108, 101>>,  \* recargable
    <<114, 101, 99, 116, 97, 110, 103, 117, 108, 97, 114>>,  \* rectangular
    <<114, 101, 100, 111, 110, 100, 111>>,  \* redondo
    <<114, 101, 115, 105, 115, 116, 101, 110, 116, 101>>,  \* resistente
    <<114, 101, 116, 114, 111>>,  \* retro
    <<114, 111, 98, 117, 115, 116, 111>>,  \* robusto
    <<114, 111, 106, 111>>,  \* rojo
    <<114, 225, 112, 105, 100, 111>>,  \* rápido
    <<115, 101, 99, 111>>,  \* seco
    <<115, 117, 97, 118, 101>>,  \* suave
    <<115, 117, 99, 105, 111>>,  \* sucio
    <<116, 101, 109, 112, 108, 97, 100, 111>>,  \* templado
    <<116, 101, 120, 116, 105, 108>>,  \* textil
    <<116, 105, 98, 105, 111>>,  \* tibio
    <<116, 114, 97, 110, 115, 112, 97, 114, 101, 110, 116, 101>>,  \* transparente
    <<116, 225, 99, 116, 105, 108>>,  \* táctil
    <<118, 105, 101, 106, 111>>,  \* viejo
    <<118, 105, 110, 116, 97, 103, 101>>,  \* vintage
    <<225, 115, 112, 101, 114, 111>>  \* áspero
  }


(***************************************************************************)
(* core/spanish_normalizer.py.  The tagger uses the module's singleton,    *)
(* whose dictionary stays empty: _is_valid_word reduces to the adjectives. *)
(***************************************************************************)

es_consonants == {98, 99, 100, 102, 103, 104, 106, 107, 108, 109, 110, 112, 113,
                  114, 115, 116, 118, 119, 120, 121, 122}      \* bcdfghjklmnpqrstvwxyz
es_vowels == {97, 101, 105, 111, 117, 225, 233, 237, 243, 250} \* aeiou and the accented vowels

\* s[:-n]
drop_last(s, n) == SubSeq(s, 1, Len(s) - n)

\* SpanishNormalizer._is_valid_word
es_is_valid_word(word) == word \in adjective_masculine

NoChange(word) == [word |-> word, changed |-> FALSE]
Changed(word) == [word |-> word, changed |-> TRUE]

\* SpanishNormalizer._depluralize
depluralize(word) ==
  IF Len(word) < 3 THEN NoChange(word)
  ELSE IF endswith(word, <<99, 101, 115>>) /\ Len(word) > 3
          /\ es_is_valid_word(drop_last(word, 3) \o <<122>>)
       THEN Changed(drop_last(word, 3) \o <<122>>)
  ELSE IF endswith(word, <<105, 111, 110, 101, 115>>) /\ Len(word) > 5
          /\ es_is_valid_word(drop_last(word, 5) \o <<105, 243, 110>>)
       THEN Changed(drop_last(word, 5) \o <<105, 243, 110>>)
  ELSE IF endswith(word, <<101, 115>>) /\ Len(word) > 3
          /\ word[Len(word) - 2] \in es_consonants
          /\ es_is_valid_word(drop_last(word, 2))
       THEN Changed(drop_last(word, 2))
  ELSE IF endswith(word, <<115>>) /\ Len(word) > 2 /\ word[Len(word) - 1] \in es_vowels
       THEN Changed(drop_last(word, 1))    \* verified or not, the result is word[:-1]
  ELSE IF endswith(word, <<101, 115>>) /\ Len(word) > 3
          /\ word[Len(word) - 2] \in es_consonants
       THEN Changed(drop_last(word, 2))
  ELSE NoChange(word)

\* SpanishNormalizer._to_masculine
to_masculine(word) ==
  IF Len(word) < 2 THEN NoChange(word)
  ELSE IF endswith(word, <<97>>) /\ es_is_valid_word(drop_last(word, 1) \o <<111>>)
       THEN Changed(drop_last(word, 1) \o <<111>>)
  ELSE IF endswith(word, <<97, 115>>) /\ Len(word) > 2
          /\ es_is_valid_word(drop_last(word, 2) \o <<111, 115>>)
       THEN Changed(drop_last(word, 2) \o <<111, 115>>)
  ELSE IF endswith(word, <<111, 114, 97>>) /\ Len(word) > 3
          /\ es_is_valid_word(drop_last(word, 3) \o <<111, 114>>)
       THEN Changed(drop_last(word, 3) \o <<111, 114>>)
  ELSE IF endswith(word, <<101, 115, 97>>) /\ Len(word) > 3
          /\ es_is_valid_word(drop_last(word, 3) \o <<233, 115>>)
       THEN Changed(drop_last(word, 3) \o <<233, 115>>)
  ELSE NoChange(word)

\* SpanishNormalizer.normalize: [normalized, changes # []]
es_normalize(word) ==
  LET word_lower == lower(word) IN
  IF word_lower \in no_normalize THEN [normalized |-> word, changed |-> FALSE]
  ELSE IF \E e \in irregular_plurals : e.key = word_lower
       THEN [normalized |-> (CHOOSE e \in irregular_plurals : e.key = word_lower).text,
             changed |-> TRUE]
  ELSE LET s == depluralize(word_lower)
           m == to_masculine(s.word)
       IN [normalized |-> m.word, changed |-> s.changed \/ m.changed]


\* JapaneseCompoundMerger._build_compound_dict: (split tokens) -> merged word
compound_dict ==
  {
    [key |-> <<<<33145>>, <<24059>>, <<12365>>>>, text |-> <<33145, 24059, 12365>>],  \* 腹+巻+き -> 腹巻き
    [key |-> <<<<33145>>, <<24059>>>>, text |-> <<33145, 24059>>],  \* 腹+巻 -> 腹巻
    [key |-> <<<<32908>>, <<30528>>>>, text |-> <<32908, 30528>>],  \* 肌+着 -> 肌着
    [key |-> <<<<19979>>, <<30528>>>>, text |-> <<19979, 30528>>],  \* 下+着 -> 下着
    [key |-> <<<<19978>>, <<30528>>>>, text |-> <<19978, 30528>>],  \* 上+着 -> 上着
    [key |-> <<<<20837>>, <<12428>>>>, text |-> <<20837, 12428>>],  \* 入+れ -> 入れ
    [key |-> <<<<20986>>, <<12375>>>>, text |-> <<20986, 12375>>],  \* 出+し -> 出し
    [key |-> <<<<21462>>, <<12426>>>>, text |-> <<21462, 12426>>],  \* 取+り -> 取り
    [key |-> <<<<20184>>, <<12369>>>>, text |-> <<20184, 12369>>],  \* 付+け -> 付け
    [key |-> <<<<25499>>, <<12369>>>>, text |-> <<25499, 12369>>],  \* 掛+け -> 掛け
    [key |-> <<<<32622>>, <<12365>>>>, text |-> <<32622, 12365>>],  \* 置+き -> 置き
    [key |-> <<<<21514>>, <<12426>>>>, text |-> <<21514, 12426>>],  \* 吊+り -> 吊り
    [key |-> <<<<24059>>, <<12365>>>>, text |-> <<24059, 12365>>],  \* 巻+き -> 巻き
    [key |-> <<<<30067>>, <<12415>>>>, text |-> <<30067, 12415>>],  \* 畳+み -> 畳み
    [key |-> <<<<12383>>, <<12383>>, <<12415>>>>, text |-> <<12383, 12383, 12415>>],  \* た+た+み -> たたみ
    [key |-> <<<<12373>>, <<12417>>>>, text |-> <<12373, 12417>>],  \* さ+め -> さめ
    [key |-> <<<<12365>>, <<12417>>>>, text |-> <<12365, 12417>>],  \* き+め -> きめ
    [key |-> <<<<12375>>, <<12417>>>>, text |-> <<12375, 12417>>],  \* し+め -> しめ
    [key |-> <<<<12488, 12540, 12488>>, <<12496, 12483, 12464>>>>, text |-> <<12488, 12540, 12488, 12496, 12483, 12464>>],  \* トート+バッグ -> トートバッグ
    [key |-> <<<<12471, 12519, 12523, 12480, 12540>>, <<12496, 12483, 12464>>>>, text |-> <<12471, 12519, 12523, 12480, 12540, 12496, 12483, 12464>>],  \* ショルダー+バッグ -> ショルダーバッグ
    [key |-> <<<<12508, 12487, 12451>>, <<12496, 12483, 12464>>>>, text |-> <<12508, 12487, 12451, 12496, 12483, 12464>>],  \* ボディ+バッグ -> ボディバッグ
    [key |-> <<<<12454, 12456, 12473, 12488>>, <<12496, 12483, 12464>>>>, text |-> <<12454, 12456, 12473, 12488, 12496, 12483, 12464>>],  \* ウエスト+バッグ -> ウエストバッグ
    [key |-> <<<<12456, 12467>>, <<12496, 12483, 12464>>>>, text |-> <<12456, 12467, 12496, 12483, 12464>>],  \* エコ+バッグ -> エコバッグ
    [key |-> <<<<12473, 12540, 12484>>, <<12465, 12540, 12473>>>>, text |-> <<12473, 12540, 12484, 12465, 12540, 12473>>],  \* スーツ+ケース -> スーツケース
    [key |-> <<<<12461, 12515, 12522, 12540>>, <<12465, 12540, 12473>>>>, text |-> <<12461, 12515, 12522, 12540, 12465, 12540, 12473>>],  \* キャリー+ケース -> キャリーケース
    [key |-> <<<<12506, 12531>>, <<12465, 12540, 12473>>>>, text |-> <<12506, 12531, 12465, 12540, 12473>>],  \* ペン+ケース -> ペンケース
    [key |-> <<<<12513, 12452, 12463>>, <<12509, 12540, 12481>>>>, text |-> <<12513, 12452, 12463, 12509, 12540, 12481>>],  \* メイク+ポーチ -> メイクポーチ
    [key |-> <<<<12521, 12531, 12491, 12531, 12464>>, <<12471, 12517, 12540, 12474>>>>, text |-> <<12521, 12531, 12491, 12531, 12464, 12471, 12517, 12540, 12474>>],  \* ランニング+シューズ -> ランニングシューズ
    [key |-> <<<<12473, 12491, 12540, 12459, 12540>>, <<12471, 12517, 12540, 12474>>>>, text |-> <<12473, 12491, 12540, 12459, 12540, 12471, 12517, 12540, 12474>>],  \* スニーカー+シューズ -> スニーカーシューズ
    [key |-> <<<<84, 12471, 12515, 12484>>>>, text |-> <<84, 12471, 12515, 12484>>],  \* Tシャツ -> Tシャツ
    [key |-> <<<<84>>, <<12471, 12515, 12484>>>>, text |-> <<84, 12471, 12515, 12484>>],  \* T+シャツ -> Tシャツ
    [key |-> <<<<12513, 12531, 12474>>>>, text |-> <<12513, 12531, 12474>>],  \* メンズ -> メンズ
    [key |-> <<<<12524, 12487, 12451, 12540, 12473>>>>, text |-> <<12524, 12487, 12451, 12540, 12473>>],  \* レディース -> レディース
    [key |-> <<<<12461, 12483, 12474>>>>, text |-> <<12461, 12483, 12474>>],  \* キッズ -> キッズ
    [key |-> <<<<12505, 12499, 12540>>>>, text |-> <<12505, 12499, 12540>>],  \* ベビー -> ベビー
    [key |-> <<<<12472, 12517, 12491, 12450>>>>, text |-> <<12472, 12517, 12491, 12450>>],  \* ジュニア -> ジュニア
    [key |-> <<<<22823>>, <<23481, 37327>>>>, text |-> <<22823, 23481, 37327>>],  \* 大+容量 -> 大容量
    [key |-> <<<<36605>>, <<37327>>>>, text |-> <<36605, 37327>>],  \* 軽+量 -> 軽量
    [key |-> <<<<38450>>, <<27700>>>>, text |-> <<38450, 27700>>],  \* 防+水 -> 防水
    [key |-> <<<<32784>>, <<27700>>>>, text |-> <<32784, 27700>>],  \* 耐+水 -> 耐水
    [key |-> <<<<20445>>, <<28201>>>>, text |-> <<20445, 28201>>],  \* 保+温 -> 保温
    [key |-> <<<<20445>>, <<20919>>>>, text |-> <<20445, 20919>>],  \* 保+冷 -> 保冷
    [key |-> <<<<25239>>, <<33740>>>>, text |-> <<25239, 33740>>],  \* 抗+菌 -> 抗菌
    [key |-> <<<<36895>>, <<20094>>>>, text |-> <<36895, 20094>>],  \* 速+乾 -> 速乾
    [key |-> <<<<21560>>, <<27735>>>>, text |-> <<21560, 27735>>],  \* 吸+汗 -> 吸汗
    [key |-> <<<<36890>>, <<27671>>>>, text |-> <<36890, 27671>>],  \* 通+気 -> 通気
    [key |-> <<<<12450, 12454, 12488>>, <<12489, 12450>>>>, text |-> <<12450, 12454, 12488, 12489, 12450>>],  \* アウト+ドア -> アウトドア
    [key |-> <<<<12452, 12531, 12489, 12450>>>>, text |-> <<12452, 12531, 12489, 12450>>],  \* インドア -> インドア
    [key |-> <<<<12458, 12501, 12451, 12473>>>>, text |-> <<12458, 12501, 12451, 12473>>],  \* オフィス -> オフィス
    [key |-> <<<<12499, 12472, 12493, 12473>>>>, text |-> <<12499, 12472, 12493, 12473>>],  \* ビジネス -> ビジネス
    [key |-> <<<<12459, 12472, 12517, 12450, 12523>>>>, text |-> <<12459, 12472, 12517, 12450, 12523>>],  \* カジュアル -> カジュアル
    [key |-> <<<<12501, 12457, 12540, 12510, 12523>>>>, text |-> <<12501, 12457, 12540, 12510, 12523>>]  \* フォーマル -> フォーマル
  }

\* JapaneseCompoundMerger.__init__: inflectional suffixes
suffix_patterns ==
  {
    <<12356>>,  \* い
    <<12358>>,  \* う
    <<12360, 12427>>,  \* える
    <<12365>>,  \* き
    <<12367>>,  \* く
    <<12369>>,  \* け
    <<12369, 12427>>,  \* ける
    <<12370, 12427>>,  \* げる
    <<12373>>,  \* さ
    <<12375>>,  \* し
    <<12376>>,  \* じ
    <<12379, 12427>>,  \* せる
    <<12383>>,  \* た
    <<12390>>,  \* て
    <<12394, 12356>>,  \* ない
    <<12397, 12427>>,  \* ねる
    <<12408, 12427>>,  \* へる
    <<12409, 12427>>,  \* べる
    <<12415>>,  \* み
    <<12417>>,  \* め
    <<12417, 12427>>,  \* める
    <<12428, 12427>>  \* れる
  }

\* JapaneseCompoundMerger._build_must_merge_list
must_merge ==
  {
    <<12450, 12454, 12488, 12489, 12450>>,  \* アウトドア
    <<12454, 12456, 12473, 12488, 12496, 12483, 12464>>,  \* ウエストバッグ
    <<12456, 12467, 12496, 12483, 12464>>,  \* エコバッグ
    <<12459, 12472, 12517, 12450, 12523>>,  \* カジュアル
    <<12461, 12483, 12474>>,  \* キッズ
    <<12461, 12515, 12522, 12540, 12465, 12540, 12473>>,  \* キャリーケース
    <<12471, 12519, 12523, 12480, 12540, 12496, 12483, 12464>>,  \* ショルダーバッグ
    <<12472, 12517, 12491, 12450>>,  \* ジュニア
    <<12473, 12491, 12540, 12459, 12540>>,  \* スニーカー
    <<12473, 12540, 12484, 12465, 12540, 12473>>,  \* スーツケース
    <<12488, 12540, 12488, 12496, 12483, 12464>>,  \* トートバッグ
    <<12499, 12472, 12493, 12473>>,  \* ビジネス
    <<12505, 12499, 12540>>,  \* ベビー
    <<12506, 12531, 12465, 12540, 12473>>,  \* ペンケース
    <<12508, 12487, 12451, 12496, 12483, 12464>>,  \* ボディバッグ
    <<12513, 12452, 12463, 12509, 12540, 12481>>,  \* メイクポーチ
    <<12513, 12531, 12474>>,  \* メンズ
    <<12521, 12531, 12491, 12531, 12464, 12471, 12517, 12540, 12474>>,  \* ランニングシューズ
    <<12524, 12487, 12451, 12540, 12473>>,  \* レディース
    <<19979, 30528>>,  \* 下着
    <<22823, 23481, 37327>>,  \* 大容量
    <<32908, 30528>>,  \* 肌着
    <<33145, 24059, 12365>>,  \* 腹巻き
    <<36605, 37327>>,  \* 軽量
    <<38450, 27700>>  \* 防水
  }

katakana_product_suffixes ==
  {
    <<12459, 12496, 12540>>,  \* カバー
    <<12461, 12515, 12483, 12503>>,  \* キャップ
    <<12465, 12540, 12473>>,  \* ケース
    <<12467, 12540, 12488>>,  \* コート
    <<12469, 12531, 12480, 12523>>,  \* サンダル
    <<12470, 12483, 12463>>,  \* ザック
    <<12471, 12515, 12484>>,  \* シャツ
    <<12471, 12517, 12540, 12474>>,  \* シューズ
    <<12472, 12515, 12465, 12483, 12488>>,  \* ジャケット
    <<12473, 12459, 12540, 12488>>,  \* スカート
    <<12473, 12479, 12531, 12489>>,  \* スタンド
    <<12473, 12491, 12540, 12459, 12540>>,  \* スニーカー
    <<12495, 12483, 12488>>,  \* ハット
    <<12496, 12483, 12464>>,  \* バッグ
    <<12497, 12483, 12489>>,  \* パッド
    <<12497, 12531, 12484>>,  \* パンツ
    <<12502, 12540, 12484>>,  \* ブーツ
    <<12505, 12473, 12488>>,  \* ベスト
    <<12507, 12523, 12480, 12540>>,  \* ホルダー
    <<12508, 12483, 12463, 12473>>,  \* ボックス
    <<12509, 12540, 12481>>,  \* ポーチ
    <<12510, 12483, 12488>>,  \* マット
    <<12521, 12483, 12463>>,  \* ラック
    <<12522, 12517, 12483, 12463>>  \* リュック
  }


(***************************************************************************)
(* core/japanese_compound_merger.py.  The token lists are modelled by      *)
(* their texts, which is all merge_to_strings returns.                     *)
(***************************************************************************)

\* JapaneseCompoundMerger._dict_merge: longest key of at most 4 tokens at i; 0 if none
RECURSIVE ja_dict_len(_, _, _)
ja_dict_len(toks, i, length) ==
  IF length <= 0 THEN 0
  ELSE IF \E e \in compound_dict : e.key = SubSeq(toks, i + 1, i + length) THEN length
  ELSE ja_dict_len(toks, i, length - 1)

RECURSIVE ja_dict_loop(_, _)
ja_dict_loop(toks, i) ==
  IF i >= Len(toks) THEN <<>>
  ELSE LET n == ja_dict_len(toks, i, Min(4, Len(toks) - i)) IN
       IF n > 0
       THEN <<(CHOOSE e \in compound_dict : e.key = SubSeq(toks, i + 1, i + n)).text>>
            \o ja_dict_loop(toks, i + n)
       ELSE <<toks[i + 1]>> \o ja_dict_loop(toks, i + 1)

\* A dictionary pass that puts the merged word in place of the key's first token and goes
\* on with the next token: what C30 tells apart from ja_dict_merge
RECURSIVE Variant_ja_dict_keep_loop(_, _)
Variant_ja_dict_keep_loop(toks, i) ==
  IF i >= Len(toks) THEN <<>>
  ELSE LET n == ja_dict_len(toks, i, Min(4, Len(toks) - i)) IN
       IF n > 0
       THEN <<(CHOOSE e \in compound_dict : e.key = SubSeq(toks, i + 1, i + n)).text>>
            \o Variant_ja_dict_keep_loop(toks, i + 1)
       ELSE <<toks[i + 1]>> \o Variant_ja_dict_keep_loop(toks, i + 1)

Variant_ja_dict_merge_keeps_tail(toks) == Variant_ja_dict_keep_loop(toks, 0)

ja_dict_merge(toks) == ja_dict_loop(toks, 0)

ends_in(s, chars) == s # <<>> /\ s[Len(s)] \in chars
starts_in(s, chars) == s # <<>> /\ s[1] \in chars

\* JapaneseCompoundMerger.merge_patterns: (prefix regex, suffix regex) pairs
ja_pattern_match(current, next_token) ==
  \/ /\ ends_in(current, {24059, 25499, 32622, 20184, 21514, 25475, 21462})      \* 巻掛置付吊掃取
     /\ starts_in(next_token, {12365, 12367, 12369, 12356, 12358, 12383, 12390, 12387}) \* きくけいうたてっ
  \/ /\ ends_in(current, {20837, 20986})                                          \* 入出
     /\ starts_in(next_token, {12428, 12426, 12387})                              \* れりっ
  \/ ends_in(current, {12365}) /\ starts_in(next_token, {12417})                  \* き, め
  \/ ends_in(current, {12373}) /\ starts_in(next_token, {12417})                  \* さ, め
  \/ ends_in(current, {12383}) /\ starts_in(next_token, {12383, 12415, 12417})    \* た, たみめ

\* JapaneseCompoundMerger._rule_merge
RECURSIVE ja_rule_loop(_, _)
ja_rule_loop(toks, i) ==
  IF i >= Len(toks) THEN <<>>
  ELSE IF i + 1 < Len(toks)
          /\ \/ (toks[i + 2] \in suffix_patterns /\ Len(toks[i + 1]) >= 1)
             \/ ja_pattern_match(toks[i + 1], toks[i + 2])
       THEN <<toks[i + 1] \o toks[i + 2]>> \o ja_rule_loop(toks, i + 2)
       ELSE <<toks[i + 1]>> \o ja_rule_loop(toks, i + 1)

ja_rule_merge(toks) == IF Len(toks) < 2 THEN toks ELSE ja_rule_loop(toks, 0)

\* JapaneseCompoundMerger._is_katakana
ja_is_katakana(text) ==
  /\ text # <<>>
  /\ 2 * Cardinality({k \in 1..Len(text) : 12448 <= text[k] /\ text[k] <= 12543}) >= Len(text)

\* JapaneseCompoundMerger._katakana_merge
RECURSIVE ja_katakana_loop(_, _, _)
ja_katakana_loop(toks, i, dictionary_words) ==
  IF i >= Len(toks) THEN <<>>
  ELSE IF i + 1 < Len(toks)
          /\ toks[i + 2] \in katakana_product_suffixes
          /\ ja_is_katakana(toks[i + 1])
          /\ LET merged_text == toks[i + 1] \o toks[i + 2] IN
             \/ merged_text \in must_merge
             \/ lower(merged_text) \in dictionary_words
             \/ merged_text \in dictionary_words
       THEN <<toks[i + 1] \o toks[i + 2]>> \o ja_katakana_loop(toks, i + 2, dictionary_words)
       ELSE <<toks[i + 1]>> \o ja_katakana_loop(toks, i + 1, dictionary_words)

ja_katakana_merge(toks, dictionary_words) ==
  IF Len(toks) < 2 THEN toks ELSE ja_katakana_loop(toks, 0, dictionary_words)

\* JapaneseCompoundMerger.merge_to_strings (merge: the three passes in order)
ja_merge_to_strings(toks, dictionary_words) ==
  IF toks = <<>> THEN <<>>
  ELSE ja_katakana_merge(ja_rule_merge(ja_dict_merge(toks)), dictionary_words)


\* EnhancedTagger._build_inference_rules: function words
stopwords ==
  {
    <<97>>,  \* a
    <<97, 108>>,  \* al
    <<97, 110>>,  \* an
    <<97, 110, 100>>,  \* and
    <<97, 115>>,  \* as
    <<97, 116>>,  \* at
    <<97, 117>>,  \* au
    <<97, 117, 120>>,  \* aux
    <<97, 118, 101, 99>>,  \* avec
    <<98, 97>>,  \* ba
    <<98, 101>>,  \* be
    <<98, 121>>,  \* by
    <<99, 101>>,  \* ce
    <<99, 111, 110>>,  \* con
    <<100, 97, 115>>,  \* das
    <<100, 101>>,  \* de
    <<100, 101, 108>>,  \* del
    <<100, 101, 114>>,  \* der
    <<100, 105, 101>>,  \* die
    <<100, 111>>,  \* do
    <<100, 117>>,  \* du
    <<101, 105, 110>>,  \* ein
    <<101, 105, 110, 101>>,  \* eine
    <<101, 108>>,  \* el
    <<101, 110>>,  \* en
    <<101, 115>>,  \* es
    <<101, 116>>,  \* et
    <<102, 111, 114>>,  \* for
    <<102, 252, 114>>,  \* für
    <<103, 114>>,  \* gr
    <<103, 114, 111>>,  \* gro
    <<105, 102>>,  \* if
    <<105, 110>>,  \* in
    <<105, 115>>,  \* is
    <<105, 116>>,  \* it
    <<108, 97>>,  \* la
    <<108, 97, 115>>,  \* las
    <<108, 101>>,  \* le
    <<108, 101, 115>>,  \* les
    <<108, 111, 115>>,  \* los
    <<109, 105, 116>>,  \* mit
    <<110, 101>>,  \* ne
    <<110, 105>>,  \* ni
    <<110, 111>>,  \* no
    <<111, 102>>,  \* of
    <<111, 110>>,  \* on
    <<111, 114>>,  \* or
    <<111, 115>>,  \* os
    <<111, 117>>,  \* ou
    <<112, 97, 114, 97>>,  \* para
    <<112, 111, 117, 114>>,  \* pour
    <<113, 117, 101>>,  \* que
    <<113, 117, 105>>,  \* qui
    <<114, 101, 114>>,  \* rer
    <<115, 97, 110, 115>>,  \* sans
    <<115, 101>>,  \* se
    <<115, 105>>,  \* si
    <<115, 111>>,  \* so
    <<115, 117>>,  \* su
    <<116, 104, 101>>,  \* the
    <<116, 111>>,  \* to
    <<117, 110>>,  \* un
    <<117, 110, 97>>,  \* una
    <<117, 110, 100>>,  \* und
    <<117, 110, 101>>,  \* une
    <<117, 112>>,  \* up
    <<118, 117, 101>>,  \* vue
    <<119, 101, 105>>,  \* wei
    <<119, 105, 116, 104>>,  \* with
    <<121>>,  \* y
    <<12364>>,  \* が
    <<12365, 12356>>,  \* きい
    <<12365, 12417>>,  \* きめ
    <<12369, 12427>>,  \* ける
    <<12373, 12417>>,  \* さめ
    <<12379, 12427>>,  \* せる
    <<12383, 12383, 12415>>,  \* たたみ
    <<12388, 12369, 12427>>,  \* つける
    <<12391>>,  \* で
    <<12392>>,  \* と
    <<12394, 12356>>,  \* ない
    <<12395>>,  \* に
    <<12398>>,  \* の
    <<12399>>,  \* は
    <<12418>>,  \* も
    <<12420>>,  \* や
    <<12434>>  \* を
  }

product_keywords ==
  {
    <<84, 12471, 12515, 12484>>,  \* Tシャツ
    <<97, 98, 114, 105, 103, 111>>,  \* abrigo
    <<98, 97, 99, 107, 112, 97, 99, 107>>,  \* backpack
    <<98, 97, 103>>,  \* bag
    <<98, 101, 108, 116>>,  \* belt
    <<98, 108, 117, 115, 101>>,  \* bluse
    <<98, 111, 108, 115, 111>>,  \* bolso
    <<98, 111, 111, 116, 115>>,  \* boots
    <<98, 111, 116, 97, 115>>,  \* botas
    <<98, 111, 116, 116, 101, 115>>,  \* bottes
    <<99, 97, 109, 105, 115, 97>>,  \* camisa
    <<99, 97, 112>>,  \* cap
    <<99, 104, 97, 113, 117, 101, 116, 97>>,  \* chaqueta
    <<99, 104, 97, 117, 115, 115, 117, 114, 101, 115>>,  \* chaussures
    <<99, 104, 101, 109, 105, 115, 101>>,  \* chemise
    <<99, 111, 97, 116>>,  \* coat
    <<100, 114, 101, 115, 115>>,  \* dress
    <<102, 97, 108, 100, 97>>,  \* falda
    <<104, 97, 116>>,  \* hat
    <<104, 101, 109, 100>>,  \* hemd
    <<104, 111, 115, 101>>,  \* hose
    <<106, 97, 99, 107, 101>>,  \* jacke
    <<106, 97, 99, 107, 101, 116>>,  \* jacket
    <<106, 117, 112, 101>>,  \* jupe
    <<107, 108, 101, 105, 100>>,  \* kleid
    <<108, 101, 103, 103, 105, 110, 103>>,  \* legging
    <<108, 101, 103, 103, 105, 110, 103, 115>>,  \* leggings
    <<109, 97, 110, 116, 101, 97, 117>>,  \* manteau
    <<109, 97, 110, 116, 101, 108>>,  \* mantel
    <<109, 111, 99, 104, 105, 108, 97>>,  \* mochila
    <<112, 97, 110, 116, 97, 108, 111, 110>>,  \* pantalon
    <<112, 97, 110, 116, 97, 108, 243, 110>>,  \* pantalón
    <<112, 97, 110, 116, 115>>,  \* pants
    <<114, 111, 98, 101>>,  \* robe
    <<114, 111, 99, 107>>,  \* rock
    <<114, 117, 99, 107, 115, 97, 99, 107>>,  \* rucksack
    <<115, 97, 99>>,  \* sac
    <<115, 99, 104, 117, 104, 101>>,  \* schuhe
    <<115, 104, 105, 114, 116>>,  \* shirt
    <<115, 104, 111, 101, 115>>,  \* shoes
    <<115, 104, 111, 114, 116, 115>>,  \* shorts
    <<115, 107, 105, 114, 116>>,  \* skirt
    <<115, 116, 105, 101, 102, 101, 108>>,  \* stiefel
    <<116, 97, 115, 99, 104, 101>>,  \* tasche
    <<116, 111, 112, 115>>,  \* tops
    <<118, 101, 115, 116, 101>>,  \* veste
    <<118, 101, 115, 116, 105, 100, 111>>,  \* vestido
    <<122, 97, 112, 97, 116, 111, 115>>,  \* zapatos
    <<12465, 12540, 12473>>,  \* ケース
    <<12467, 12540, 12488>>,  \* コート
    <<12470, 12483, 12463>>,  \* ザック
    <<12471, 12515, 12484>>,  \* シャツ
    <<12471, 12517, 12540, 12474>>,  \* シューズ
    <<12472, 12515, 12465, 12483, 12488>>,  \* ジャケット
    <<12473, 12459, 12540, 12488>>,  \* スカート
    <<12496, 12483, 12464>>,  \* バッグ
    <<12497, 12531, 12484>>,  \* パンツ
    <<12502, 12540, 12484>>,  \* ブーツ
    <<12505, 12473, 12488>>,  \* ベスト
    <<12509, 12540, 12481>>,  \* ポーチ
    <<12522, 12517, 12483, 12463>>  \* リュック
  }

audience_keywords ==
  {
    <<97, 100, 117, 108, 116>>,  \* adult
    <<98, 97, 98, 121>>,  \* baby
    <<98, 111, 121, 115>>,  \* boys
    <<100, 97, 109, 101, 110>>,  \* damen
    <<101, 110, 102, 97, 110, 116>>,  \* enfant
    <<102, 101, 109, 109, 101>>,  \* femme
    <<103, 105, 114, 108, 115>>,  \* girls
    <<104, 101, 114, 114, 101, 110>>,  \* herren
    <<104, 111, 109, 98, 114, 101>>,  \* hombre
    <<104, 111, 109, 109, 101>>,  \* homme
    <<107, 105, 100, 115>>,  \* kids
    <<107, 105, 110, 100, 101, 114>>,  \* kinder
    <<109, 101, 110>>,  \* men
    <<109, 101, 110, 39, 115>>,  \* men's
    <<109, 101, 110, 115>>,  \* mens
    <<109, 117, 106, 101, 114>>,  \* mujer
    <<110, 105, 241, 97>>,  \* niña
    <<110, 105, 241, 111>>,  \* niño
    <<110, 105, 241, 111, 115>>,  \* niños
    <<117, 110, 105, 115, 101, 120>>,  \* unisex
    <<119, 111, 109, 101, 110>>,  \* women
    <<119, 111, 109, 101, 110, 39, 115>>,  \* women's
    <<119, 111, 109, 101, 110, 115>>,  \* womens
    <<12461, 12483, 12474>>,  \* キッズ
    <<12505, 12499, 12540>>,  \* ベビー
    <<12513, 12531, 12474>>,  \* メンズ
    <<12524, 12487, 12451, 12540, 12473>>  \* レディース
  }

scenario_keywords ==
  {
    <<99, 97, 109, 112, 105, 110, 103>>,  \* camping
    <<102, 105, 116, 110, 101, 115, 115>>,  \* fitness
    <<103, 121, 109>>,  \* gym
    <<104, 105, 107, 105, 110, 103>>,  \* hiking
    <<111, 117, 116, 100, 111, 111, 114>>,  \* outdoor
    <<114, 117, 110, 110, 105, 110, 103>>,  \* running
    <<115, 112, 111, 114, 116>>,  \* sport
    <<116, 114, 97, 105, 110, 105, 110, 103>>,  \* training
    <<116, 114, 97, 118, 101, 108>>,  \* travel
    <<119, 97, 110, 100, 101, 114, 110>>,  \* wandern
    <<121, 111, 103, 97>>,  \* yoga
    <<12450, 12454, 12488, 12489, 12450>>,  \* アウトドア
    <<12461, 12515, 12531, 12503>>,  \* キャンプ
    <<12473, 12509, 12540, 12484>>,  \* スポーツ
    <<12488, 12524, 12483, 12461, 12531, 12464>>,  \* トレッキング
    <<12488, 12524, 12540, 12491, 12531, 12464>>,  \* トレーニング
    <<12495, 12452, 12461, 12531, 12464>>,  \* ハイキング
    <<12520, 12460>>,  \* ヨガ
    <<12521, 12531, 12491, 12531, 12464>>,  \* ランニング
    <<30331, 23665>>  \* 登山
  }

feature_keywords ==
  {
    <<97, 116, 109, 117, 110, 103, 115, 97, 107, 116, 105, 118>>,  \* atmungsaktiv
    <<98, 114, 101, 97, 116, 104, 97, 98, 108, 101>>,  \* breathable
    <<99, 111, 109, 112, 114, 101, 115, 115, 105, 111, 110>>,  \* compression
    <<101, 108, 97, 115, 116, 105, 115, 99, 104>>,  \* elastisch
    <<105, 109, 112, 101, 114, 109, 101, 97, 98, 108, 101>>,  \* impermeable
    <<105, 109, 112, 101, 114, 109, 233, 97, 98, 108, 101>>,  \* imperméable
    <<108, 101, 105, 99, 104, 116>>,  \* leicht
    <<108, 105, 103, 101, 114, 111>>,  \* ligero
    <<108, 105, 103, 104, 116, 119, 101, 105, 103, 104, 116>>,  \* lightweight
    <<108, 233, 103, 101, 114>>,  \* léger
    <<113, 117, 105, 99, 107, 45, 100, 114, 121>>,  \* quick-dry
    <<114, 101, 99, 104, 97, 114, 103, 101, 97, 98, 108, 101>>,  \* rechargeable
    <<114, 101, 115, 112, 105, 114, 97, 110, 116>>,  \* respirant
    <<116, 104, 101, 114, 109, 97, 108>>,  \* thermal
    <<116, 104, 101, 114, 109, 111>>,  \* thermo
    <<116, 114, 97, 110, 115, 112, 105, 114, 97, 98, 108, 101>>,  \* transpirable
    <<119, 97, 114, 109>>,  \* warm
    <<119, 97, 115, 115, 101, 114, 100, 105, 99, 104, 116>>,  \* wasserdicht
    <<119, 97, 116, 101, 114, 112, 114, 111, 111, 102>>,  \* waterproof
    <<12473, 12488, 12524, 12483, 12481>>,  \* ストレッチ
    <<20445, 28201>>,  \* 保温
    <<25765, 27700>>,  \* 撥水
    <<36605, 37327>>,  \* 軽量
    <<36890, 27671>>,  \* 通気
    <<36895, 20094>>,  \* 速乾
    <<38450, 27700>>  \* 防水
  }

attribute_keywords ==
  {
    <<97, 108, 116, 97>>,  \* alta
    <<98, 108, 117, 101, 116, 111, 111, 116, 104>>,  \* bluetooth
    <<99, 111, 114, 116, 111>>,  \* corto
    <<99, 111, 117, 114, 116>>,  \* court
    <<101, 120, 116, 101, 114, 110, 111>>,  \* externo
    <<104, 97, 117, 116, 101>>,  \* haute
    <<104, 105, 103, 104>>,  \* high
    <<107, 117, 114, 122, 97, 114, 109>>,  \* kurzarm
    <<108, 97, 110, 103, 97, 114, 109>>,  \* langarm
    <<108, 97, 114, 103, 111>>,  \* largo
    <<108, 111, 110, 103>>,  \* long
    <<108, 111, 119>>,  \* low
    <<109, 105, 110, 105>>,  \* mini
    <<115, 104, 111, 114, 116>>,  \* short
    <<115, 108, 101, 101, 118, 101>>,  \* sleeve
    <<116, 97, 105, 108, 108, 101>>,  \* taille
    <<119, 97, 105, 115, 116>>,  \* waist
    <<119, 105, 114, 101, 108, 101, 115, 115>>,  \* wireless
    <<12479, 12452, 12503>>,  \* タイプ
    <<12501, 12540, 12489, 20184, 12365>>,  \* フード付き
    <<21322, 34966>>,  \* 半袖
    <<38263, 34966>>  \* 長袖
  }

\* EnhancedTagger._build_context_rules: unit words of the number+unit rule
unit_words ==
  {
    <<99, 109>>,  \* cm
    <<103>>,  \* g
    <<103, 98>>,  \* gb
    <<105, 110, 99, 104>>,  \* inch
    <<107, 103>>,  \* kg
    <<108>>,  \* l
    <<108, 98>>,  \* lb
    <<109>>,  \* m
    <<109, 98>>,  \* mb
    <<109, 108>>,  \* ml
    <<109, 109>>,  \* mm
    <<116, 98>>,  \* tb
    <<20811>>,  \* 克
    <<21315, 20811>>,  \* 千克
    <<21319>>,  \* 升
    <<21400, 31859>>,  \* 厘米
    <<21495>>,  \* 号
    <<23544>>,  \* 寸
    <<27627, 21319>>,  \* 毫升
    <<30721>>,  \* 码
    <<30917>>,  \* 磅
    <<33521, 23544>>  \* 英寸
  }

model_suffixes ==
  {
    <<108, 105, 116, 101>>,  \* lite
    <<109, 97, 120>>,  \* max
    <<109, 105, 110, 105>>,  \* mini
    <<112, 108, 117, 115>>,  \* plus
    <<112, 114, 111>>,  \* pro
    <<115, 101>>,  \* se
    <<117, 108, 116, 114, 97>>  \* ultra
  }

\* EnhancedTagger._infer_heuristic: common_words
common_words ==
  {
    <<97>>,  \* a
    <<97, 110>>,  \* an
    <<97, 110, 100>>,  \* and
    <<102, 111, 114>>,  \* for
    <<109, 97, 120>>,  \* max
    <<109, 105, 110, 105>>,  \* mini
    <<110, 101, 119>>,  \* new
    <<111, 114>>,  \* or
    <<112, 114, 111>>,  \* pro
    <<116, 104, 101>>,  \* the
    <<119, 105, 116, 104>>  \* with
  }


(***************************************************************************)
(* core/enhanced_tagger.py                                                 *)
(***************************************************************************)

\* TagType: the Python string of each label
TagText(tag) ==
  CASE tag = "brand"     -> <<21697, 29260, 35789>>   \* 品牌词
    [] tag = "product"   -> <<21830, 21697, 35789>>   \* 商品词
    [] tag = "audience"  -> <<20154, 32676, 35789>>   \* 人群词
    [] tag = "scenario"  -> <<22330, 26223, 35789>>   \* 场景词
    [] tag = "color"     -> <<39068, 33394, 35789>>   \* 颜色词
    [] tag = "size"      -> <<23610, 23544, 35789>>   \* 尺寸词
    [] tag = "feature"   -> <<21334, 28857, 35789>>   \* 卖点词
    [] tag = "attribute" -> <<23646, 24615, 35789>>   \* 属性词

\* Python's < on two strings: code point order at the first difference
RECURSIVE str_less(_, _)
str_less(a, b) ==
  IF b = <<>> THEN FALSE
  ELSE IF a = <<>> THEN TRUE
  ELSE IF a[1] # b[1] THEN a[1] < b[1]
  ELSE str_less(Tail(a), Tail(b))

\* TAG_COMPATIBILITY: the dict literal, key -> value
TAG_COMPATIBILITY ==
  {[key |-> <<"size", "color">>, value |-> FALSE],
   [key |-> <<"size", "brand">>, value |-> FALSE],
   [key |-> <<"color", "brand">>, value |-> FALSE],
   [key |-> <<"product", "feature">>, value |-> TRUE],
   [key |-> <<"scenario", "audience">>, value |-> TRUE],
   [key |-> <<"attribute", "product">>, value |-> TRUE],
   [key |-> <<"attribute", "feature">>, value |-> TRUE]}

\* are_tags_compatible
are_tags_compatible(tag1, tag2) ==
  IF tag1 = tag2 THEN TRUE
  ELSE LET key == IF str_less(TagText(tag1), TagText(tag2))
                  THEN <<tag1, tag2>> ELSE <<tag2, tag1>>
       IN IF \E e \in TAG_COMPATIBILITY : e.key = key
          THEN (CHOOSE e \in TAG_COMPATIBILITY : e.key = key).value
          ELSE TRUE

TagCandidate(tag, confidence, method, source) ==
  [tag |-> tag, confidence |-> confidence, method |-> method, source |-> source]

\* color_patterns: .+[色系]$  and  ^(深|浅|亮|暗|淡).+色$
color_pattern_match(token) ==
  \/ (Len(token) >= 2 /\ token[Len(token)] \in {33394, 31995})
  \/ (Len(token) >= 3 /\ token[1] \in {28145, 27973, 20142, 26263, 28129}
      /\ token[Len(token)] = 33394)

\* the units of size_patterns 1-4 (re.I) and of pattern 8 (case-sensitive)
size_units_ignorecase ==
  {<<30721>>, <<23544>>, <<21495>>, <<99, 109>>, <<109, 109>>, <<109>>,
   <<105, 110, 99, 104>>, <<33521, 23544>>, <<21400, 31859>>,          \* 码 寸 号 cm mm m inch 英寸 厘米
   <<107, 103>>, <<103>>, <<108, 98>>, <<30917>>, <<20811>>, <<21315, 20811>>, \* kg g lb 磅 克 千克
   <<109, 108>>, <<108>>, <<27627, 21319>>, <<21319>>,                 \* ml l 毫升 升
   <<103, 98>>, <<116, 98>>, <<109, 98>>}                              \* gb tb mb
size_units_counters ==
  {<<c>> : c \in {24352, 29255, 20010, 21482, 26465, 25903, 29942, 30418, 21253,
                  34955, 20214, 22871, 21452, 23545}}                  \* 张片个只条支瓶盒包袋件套双对
size_letters ==
  {<<115>>, <<109>>, <<108>>, <<120, 108>>, <<120, 120, 108>>, <<120, 120, 120, 108>>,
   <<120, 115>>, <<50, 120, 108>>, <<51, 120, 108>>, <<52, 120, 108>>} \* S M L XL XXL XXXL XS 2XL 3XL 4XL

fold_all(s) == [k \in 1..Len(s) |-> regex_fold(s[k])]

\* size_patterns: does one of the eight anchored patterns match the token
size_pattern_match(token) ==
  \/ /\ token # <<>> /\ isdigit(token[1])
     /\ LET p1 == skip_while_digit(token, 0)
            p2 == IF p1 < Len(token) /\ At(token, p1) = 46 THEN p1 + 1 ELSE p1
            p3 == skip_while_digit(token, p2)
            p4 == skip_while_space(token, p3)
            unit == Slice(token, p4, Len(token))
        IN \/ fold_all(unit) \in size_units_ignorecase
           \/ unit \in size_units_counters
           \/ (p1 = p4 /\ Len(unit) >= 2 /\ regex_fold(unit[1]) = 120
               /\ skip_while_digit(unit, 1) = Len(unit))        \* ^\d+x\d+$
  \/ fold_all(token) \in size_letters

\* EnhancedTagger._match_dictionary
tag_dict_mapping ==
  <<[dict_name |-> "brands", tag |-> "brand"], [dict_name |-> "products", tag |-> "product"],
    [dict_name |-> "audiences", tag |-> "audience"], [dict_name |-> "scenarios", tag |-> "scenario"],
    [dict_name |-> "colors", tag |-> "color"], [dict_name |-> "features", tag |-> "feature"],
    [dict_name |-> "attributes", tag |-> "attribute"]>>

\* entry.get("confidence", 0.9) if entry else 0.9
entry_confidence(e) == IF e.found THEN e.confidence ELSE 9000

match_dictionary(dicts, index, token, lang) ==
  LET token_lower == lower(token)
      r == es_normalize(token_lower)
      normalized_token ==
        IF lang \in {"es", "None"} /\ r.normalized # token_lower /\ r.changed
        THEN r.normalized ELSE <<>>
      one(m) ==
        IF contains(index, m.dict_name, token_lower)
        THEN <<TagCandidate(m.tag, entry_confidence(get_entry(dicts, m.dict_name, token_lower)),
                            "dict", m.dict_name)>>
        ELSE IF normalized_token # <<>> /\ contains(index, m.dict_name, normalized_token)
        THEN <<TagCandidate(m.tag,
                 (entry_confidence(get_entry(dicts, m.dict_name, normalized_token)) * 95) \div 100,
                 "dict_normalized", m.dict_name)>>
        ELSE <<>>
  IN Concat([k \in 1..Len(tag_dict_mapping) |-> one(tag_dict_mapping[k])])

\* EnhancedTagger._match_patterns
match_patterns(token) ==
  (IF color_pattern_match(token)
   THEN <<TagCandidate("color", 8500, "pattern", "color_pattern")>> ELSE <<>>)
  \o (IF size_pattern_match(token)
      THEN <<TagCandidate("size", 9500, "pattern", "size_pattern")>> ELSE <<>>)

\* EnhancedTagger._infer_by_rules
infer_by_rules(token) ==
  LET hit(kw) == lower(token) \in kw \/ token \in kw IN
  (IF hit(product_keywords) THEN <<TagCandidate("product", 8500, "rule", "product_keywords")>> ELSE <<>>)
  \o (IF hit(audience_keywords) THEN <<TagCandidate("audience", 8500, "rule", "audience_keywords")>> ELSE <<>>)
  \o (IF hit(scenario_keywords) THEN <<TagCandidate("scenario", 8500, "rule", "scenario_keywords")>> ELSE <<>>)
  \o (IF hit(feature_keywords) THEN <<TagCandidate("feature", 8500, "rule", "feature_keywords")>> ELSE <<>>)
  \o (IF hit(attribute_keywords) THEN <<TagCandidate("attribute", 8000, "rule", "attribute_keywords")>> ELSE <<>>)

\* EnhancedTagger._infer_heuristic
infer_heuristic(token, position) ==
  (IF Len(token) > 2 /\ isupper(token[1]) /\ (\A k \in 1..Len(token) : isalpha(token[k]))
      /\ lower(token) \notin common_words /\ position = 0
   THEN <<TagCandidate("brand", 6500, "heuristic", "capitalized_first")>> ELSE <<>>)
  \o (IF \E k \in 1..Len(token) : isdigit(token[k])
      THEN <<TagCandidate("size", 7000, "heuristic", "contains_digit")>> ELSE <<>>)
  \o (IF lower(token) \in model_suffixes /\ position > 0
      THEN <<TagCandidate("attribute", 7500, "heuristic", "model_suffix")>> ELSE <<>>)

\* EnhancedTagger._get_candidates
get_candidates(dicts, index, token, position, lang) ==
  IF lower(token) \in stopwords
  THEN <<TagCandidate("attribute", 8500, "stopword", "stopword_list")>>
  ELSE LET candidates == match_dictionary(dicts, index, token, lang)
                           \o match_patterns(token) \o infer_by_rules(token)
       IN IF \A k \in 1..Len(candidates) : candidates[k].confidence < 7000
          THEN candidates \o infer_heuristic(token, position)
          ELSE candidates

\* candidates.sort(key=lambda c: c.confidence, reverse=True): descending and stable
RECURSIVE sort_by_confidence_desc(_)
sort_by_confidence_desc(s) ==
  IF s = <<>> THEN <<>>
  ELSE LET m == CHOOSE k \in 1..Len(s) :
                  /\ \A j \in 1..Len(s) : s[j].confidence <= s[k].confidence
                  /\ \A j \in 1..(k - 1) : s[j].confidence < s[k].confidence
       IN <<s[m]>> \o sort_by_confidence_desc(SubSeq(s, 1, m - 1) \o SubSeq(s, m + 1, Len(s)))

TagResult(token, tags, primary_tag, confidence, method, all_candidates) ==
  [token |-> token, tags |-> tags, primary_tag |-> primary_tag, confidence |-> confidence,
   method |-> method, all_candidates |-> all_candidates]

\* EnhancedTagger._create_result
create_result(token, candidates) ==
  IF candidates = <<>>
  THEN TagResult(token, <<"attribute">>, "attribute", 5000, "default", <<>>)
  ELSE LET sorted == sort_by_confidence_desc(candidates)
           primary == sorted[1]
           secondary == SelectSeq(Tail(sorted),
                          LAMBDA c : are_tags_compatible(primary.tag, c.tag)
                                     /\ c.confidence >= 7000)
           secondary_tags == [k \in 1..Len(secondary) |-> secondary[k].tag]
           all_tags == <<primary.tag>> \o SubSeq(secondary_tags, 1, Min(1, Len(secondary_tags)))
       IN TagResult(token, all_tags, primary.tag, primary.confidence, primary.method, sorted)

\* context_boost: (previous primary tag, current primary tag) -> adjustment; 0 if not a key.
\* The key ("number", "unit") names no tag and is never looked up.
context_boost(prev_tag, tag) ==
  CASE prev_tag = "brand" /\ tag = "product" -> 500
    [] prev_tag = "product" /\ tag = "brand" -> -1000
    [] prev_tag = "color" /\ tag = "product" -> 300
    [] prev_tag = "audience" /\ tag = "product" -> 200
    [] prev_tag = "scenario" /\ tag = "product" -> 200
    [] OTHER -> 0

\* prev_token.replace('.', '').isdigit()
is_number_token(token) ==
  LET digits == SelectSeq(token, LAMBDA c : c # 46)
  IN digits # <<>> /\ \A k \in 1..Len(digits) : isdigit(digits[k])

\* the body of the loop of _apply_context_adjustments for index i (0-based)
adjust_one(results, toks, i) ==
  LET result == results[i + 1]
      forced == IF i > 0 /\ is_number_token(toks[i]) /\ lower(toks[i + 1]) \in unit_words
                THEN TagResult(result.token, <<"size">>, "size", 9500, "context",
                               result.all_candidates)
                ELSE result
      adjustment == IF i > 0 THEN context_boost(results[i].primary_tag, forced.primary_tag) ELSE 0
  IN IF adjustment # 0
     THEN [forced EXCEPT !.confidence = Min(10000, Max(0, forced.confidence + adjustment))]
     ELSE forced

\* EnhancedTagger._apply_context_adjustments
apply_context_adjustments(results, toks) ==
  IF Len(results) < 2 THEN results
  ELSE [k \in 1..Len(results) |-> adjust_one(results, toks, k - 1)]

\* has_japanese of _merge_japanese_compounds
has_japanese(toks) ==
  \E k \in 1..Len(toks) : \E j \in 1..Len(toks[k]) :
    LET c == toks[k][j] IN
    \/ (12352 <= c /\ c <= 12447) \/ (12448 <= c /\ c <= 12543) \/ (19968 <= c /\ c <= 40959)

\* EnhancedTagger._merge_japanese_compounds
merge_japanese_compounds(dicts, toks) ==
  IF ~has_japanese(toks) THEN toks
  ELSE LET words == UNION {get_all_words(dicts, d) :
                      d \in {"products", "brands", "scenarios", "features", "attributes",
                             "colors", "audiences"}}
           all_dict_words == {lower(w) : w \in words} \cup words
       IN ja_merge_to_strings(toks, all_dict_words)

\* EnhancedTagger.tag
tag(dicts, index, toks, lang) ==
  LET merged_tokens == IF lang \in {"ja", "None"} THEN merge_japanese_compounds(dicts, toks)
                       ELSE toks
      results == [k \in 1..Len(merged_tokens) |->
                    create_result(merged_tokens[k],
                                  get_candidates(dicts, index, merged_tokens[k], k - 1, lang))]
  IN apply_context_adjustments(results, merged_tokens)


(***************************************************************************)
(* core/enhanced_pipeline.py                                               *)
(***************************************************************************)

\* EnhancedPipeline._is_fully_locked
is_fully_locked(start, end, locked) ==
  \E k \in 1..Len(locked) : locked[k].start <= start /\ end <= locked[k].end

\* _get_unlocked_parts: the locks clipped to the text, in text-relative offsets
relative_locks(text, text_start, locked) ==
  LET rel == [k \in 1..Len(locked) |->
                [start |-> Max(0, locked[k].start - text_start),
                 end |-> Min(Len(text), locked[k].end - text_start)]]
  IN SelectSeq(rel, LAMBDA r : r.start < r.end)

\* _get_unlocked_parts: the merge of the sorted relative locks
RECURSIVE merge_locks(_, _)
merge_locks(merged_locks, rest) ==
  IF rest = <<>> THEN merged_locks
  ELSE LET last == merged_locks[Len(merged_locks)]
           r == Head(rest)
       IN IF r.start <= last.end
          THEN merge_locks([merged_locks EXCEPT ![Len(merged_locks)] =
                              [start |-> last.start, end |-> Max(last.end, r.end)]],
                           Tail(rest))
          ELSE merge_locks(Append(merged_locks, r), Tail(rest))

\* _get_unlocked_parts: the text between the merged locks, from prev_end on
RECURSIVE parts_between(_, _, _, _)
parts_between(text, text_start, merged_locks, prev_end) ==
  IF merged_locks = <<>>
  THEN IF prev_end < Len(text)
       THEN <<[start |-> text_start + prev_end, end |-> text_start + Len(text),
               text |-> Slice(text, prev_end, Len(text))]>>
       ELSE <<>>
  ELSE LET l == Head(merged_locks) IN
       (IF prev_end < l.start
        THEN <<[start |-> text_start + prev_end, end |-> text_start + l.start,
                text |-> Slice(text, prev_end, l.start)]>>
        ELSE <<>>)
       \o parts_between(text, text_start, Tail(merged_locks), l.end)

\* A splitter that ignores the locks: what C3 tells apart from get_unlocked_parts
Variant_whole_text_unlocked(text, text_start, locked) ==
  <<[start |-> text_start, end |-> text_start + Len(text), text |-> text]>>

\* EnhancedPipeline._get_unlocked_parts
get_unlocked_parts(text, text_start, locked) ==
  LET rel == relative_locks(text, text_start, locked) IN
  IF rel = <<>>
  THEN <<[start |-> text_start, end |-> text_start + Len(text), text |-> text]>>
  ELSE LET sorted == SortByKey(SortByKey(rel, "end"), "start")   \* tuple order
       IN parts_between(text, text_start, merge_locks(<<sorted[1]>>, Tail(sorted)), 0)

\* process, step 4: the unlocked, non-blank parts of every segment that is not fully locked
unlocked_parts_of(segs, locked) ==
  Concat([k \in 1..Len(segs) |->
            IF is_fully_locked(segs[k].start, segs[k].end, locked) THEN <<>>
            ELSE LET parts == get_unlocked_parts(segs[k].text, segs[k].start, locked)
                 IN [j \in 1..Len(parts) |->
                       [start |-> parts[j].start, end |-> parts[j].end,
                        text |-> parts[j].text, script |-> segs[k].script]]])

PlainToken(pos, text) == [pos |-> pos, text |-> text, tag |-> "None", confidence |-> 0]

\* process, step 4: the all_tokens entries of one part
tokens_of_part(part, cuts) ==
  LET tokenizer_name == get_tokenizer_for_script(part.script) IN
  IF strip(part.text) = <<>> THEN <<>>
  ELSE IF tokenizer_name = "passthrough"
  THEN <<PlainToken(part.start, strip(part.text))>>
  ELSE IF tokenizer_name \in {"chinese", "japanese"}
  THEN LET toks == external_tokenize(part.text, part.start, cuts)
       IN [k \in 1..Len(toks) |-> PlainToken(part.start, toks[k])]
  ELSE LET toks == SelectSeq(european_tokenize(part.text), LAMBDA t : strip(t) # <<>>) IN
       IF tokenizer_name = "european"
       THEN LET m == merge(toks)
            IN [k \in 1..Len(m) |->
                  [pos |-> part.start, text |-> m[k].text,
                   tag |-> m[k].suggested_tag,
                   confidence |-> IF m[k].suggested_tag # "None" THEN m[k].confidence ELSE 0]]
       ELSE [k \in 1..Len(toks) |-> PlainToken(part.start, strip(toks[k]))]

\* A collector that leaves the span tokens at the end: what C11 tells apart from collect_tokens
Variant_unsorted_tokens(parts, sp, cuts) ==
  Concat([k \in 1..Len(parts) |-> tokens_of_part(parts[k], cuts)])
    \o [k \in 1..Len(sp) |->
          [pos |-> sp[k].start, text |-> sp[k].text, tag |-> sp[k].tag,
           confidence |-> sp[k].confidence]]

\* process, steps 4 (end): tokenizer tokens, then the span tokens, sorted by position
collect_tokens(parts, sp, cuts) ==
  LET span_tokens == [k \in 1..Len(sp) |->
                        [pos |-> sp[k].start, text |-> sp[k].text, tag |-> sp[k].tag,
                         confidence |-> sp[k].confidence]]
  IN SortByKey(Concat([k \in 1..Len(parts) |-> tokens_of_part(parts[k], cuts)]) \o span_tokens,
               "pos")

\* preset_tags = {t[1]: (t[2], t[3]) for t in all_tokens if t[2] is not None}: the last entry of a text wins
preset_of(toks, text) ==
  LET hits == {k \in 1..Len(toks) : toks[k].text = text /\ toks[k].tag # "None"}
  IN IF hits = {} THEN [found |-> FALSE, tag |-> "None", confidence |-> 0]
     ELSE LET k == CHOOSE k \in hits : \A j \in hits : j <= k
          IN [found |-> TRUE, tag |-> toks[k].tag, confidence |-> toks[k].confidence]

\* process, step 6: the preset override of one result
apply_preset(toks, result) ==
  LET p == preset_of(toks, result.token) IN
  IF p.found /\ p.confidence >= result.confidence
  THEN TagResult(result.token, <<p.tag>>, p.tag, p.confidence, "preset", result.all_candidates)
  ELSE result


(***************************************************************************)
(* EnhancedPipeline: AI enhancement and output formatting.                 *)
(***************************************************************************)

\* settings.ai_confidence_threshold, 0.6
ai_confidence_threshold == 6000

\* AIEnhancer.tag_descriptions: the labels the prompt offers
tag_descriptions ==
  {"brand", "product", "audience", "scenario", "color", "size", "feature", "attribute"}

\* _apply_ai_enhancement: the indices (1-based) of the results sent to the AI
RECURSIVE low_conf_indices(_, _)
low_conf_indices(results, i) ==
  IF i > Len(results) THEN <<>>
  ELSE IF /\ results[i].confidence <= ai_confidence_threshold
          /\ Len(results[i].token) > 1
          /\ results[i].method # "stopword"
       THEN <<i>> \o low_conf_indices(results, i + 1)
       ELSE low_conf_indices(results, i + 1)

low_conf_words(results) ==
  LET idxs == low_conf_indices(results, 1) IN [k \in 1..Len(idxs) |-> results[idxs[k]].token]

\* one value of the dictionary AIEnhancer.process_batch returns; keys are the keys it holds
AIEntry(keys, label, confidence) == [keys |-> keys, tag |-> label, confidence |-> confidence]

\* _apply_ai_enhancement, the update loop: results are replaced in place one by one; a
\* missing key raises KeyError, which the except clause swallows, ending the loop
RECURSIVE ai_update_loop(_, _, _, _)
ai_update_loop(results, idxs, answer, k) ==
  IF k > Len(idxs) THEN results
  ELSE LET idx == idxs[k]
           word == results[idx].token
       IN IF word \notin DOMAIN answer THEN ai_update_loop(results, idxs, answer, k + 1)
          ELSE IF ~({"tag", "confidence"} \subseteq answer[word].keys) THEN results
          ELSE ai_update_loop(
                 [results EXCEPT ![idx] =
                    TagResult(word, <<answer[word].tag>>, answer[word].tag,
                              answer[word].confidence, "ai", results[idx].all_candidates)],
                 idxs, answer, k + 1)

\* EnhancedPipeline._apply_ai_enhancement; answer is what ai_enhancer.process_batch returned
apply_ai_enhancement(results, answer) ==
  IF low_conf_indices(results, 1) = <<>> THEN results
  ELSE ai_update_loop(results, low_conf_indices(results, 1), answer, 1)

\* round(confidence, 2) on a confidence in 1/10000: the nearest hundredth; at a tie the float's
\* binary expansion decides, and 0.9 * 0.95, the one tie the tagger produces, lies below 0.855
round2(confidence) ==
  IF confidence = 8550 THEN 8500 ELSE ((confidence + 50) \div 100) * 100

\* _format_output: tag_summary as the list of its items, in insertion order
RECURSIVE tag_summary_of(_, _)
tag_summary_of(results, summary) ==
  IF results = <<>> THEN summary
  ELSE LET primary == Head(results).primary_tag
           at == {k \in 1..Len(summary) : summary[k].tag = primary}
       IN IF at = {}
          THEN tag_summary_of(Tail(results),
                              Append(summary, [tag |-> primary, tokens |-> <<Head(results).token>>]))
          ELSE tag_summary_of(Tail(results),
                              [k \in 1..Len(summary) |->
                                 IF k \in at
                                 THEN [summary[k] EXCEPT !.tokens = Append(@, Head(results).token)]
                                 ELSE summary[k]])

\* EnhancedPipeline._format_output
format_output(original, toks, results) ==
  [original_keyword |-> original,
   tokens |-> toks,
   tagged_tokens |-> [k \in 1..Len(results) |->
                        [token |-> results[k].token, tags |-> results[k].tags,
                         confidence |-> round2(results[k].confidence)]],
   tag_summary |-> tag_summary_of(results, <<>>)]

(***************************************************************************)
(* Bounds and inputs.                                                      *)
(***************************************************************************)
MaxTextLen == 5       \* longest normalized keyword
MaxTokens == 3        \* longest token list given to the tagger directly
MaxMergeTokens == 4   \* longest token list given to the phrase merger directly
MaxCandidates == 3    \* longest candidate list given to _create_result directly

\* the characters of the keywords: a, m, 1, space, U+0130 (capital dotted I), hiragana ki
Alphabet == {97, 109, 49, 32, 304, 12365}

\* Preprocessor.process returns text without leading, trailing or repeated blanks
is_normal_form(t) ==
  /\ t[1] # 32 /\ t[Len(t)] # 32
  /\ \A k \in 1..(Len(t) - 1) : ~(t[k] = 32 /\ t[k + 1] = 32)

Texts == {t \in UNION {[1..n -> Alphabet] : n \in 1..MaxTextLen} : is_normal_form(t)}

Languages == {"None", "ja", "en", "es"}

Entry(word, confidence) == [word |-> word, confidence |-> confidence]

EmptyDicts == [d \in DictNames |-> <<>>]

\* brands: m (0.6), am, "am a", a1m, XL (0.9), Nike; colors: rojo (0.9)
BrandDicts ==
  [EmptyDicts EXCEPT
     !["brands"] = <<Entry(<<109>>, 6000), Entry(<<97, 109>>, 9500),
                     Entry(<<97, 109, 32, 97>>, 9500), Entry(<<97, 49, 109>>, 9500),
                     Entry(<<88, 76>>, 9000), Entry(<<78, 105, 107, 101>>, 9500)>>,
     !["colors"] = <<Entry(<<114, 111, 106, 111>>, 9000)>>]

DictConfigs == {EmptyDicts, BrandDicts}

\* the same, with products: shirt (0.9)
ProductDicts == [BrandDicts EXCEPT !["products"] = <<Entry(<<115, 104, 105, 114, 116>>, 9000)>>]

\* the dictionaries the tagger is constructed with
TagDictConfigs == DictConfigs \cup {ProductDicts}

\* tokens given to the tagger: XL, 5, cm, ki, Nike, shirt, roja
TagTokens ==
  {<<88, 76>>, <<53>>, <<99, 109>>, <<12365>>, <<78, 105, 107, 101>>,
   <<115, 104, 105, 114, 116>>, <<114, 111, 106, 97>>}

TagTokenLists == UNION {[1..n -> TagTokens] : n \in 1..MaxTokens}

\* tokens given to the phrase merger: plus, Plus, size, women, x, hooded
MergeTokens ==
  {<<112, 108, 117, 115>>, <<80, 108, 117, 115>>, <<115, 105, 122, 101>>,
   <<119, 111, 109, 101, 110>>, <<120>>, <<104, 111, 111, 100, 101, 100>>}

MergeTokenLists == UNION {[1..n -> MergeTokens] : n \in 1..MaxMergeTokens}

\* candidates given to _create_result: a size, brand, color or product tag at 0.65, 0.7 or 0.95
CandidatePool ==
  {TagCandidate(t, c, IF t = "size" THEN "pattern" ELSE "dict", "")
     : t \in {"size", "brand", "color", "product"}, c \in {6500, 7000, 9500}}

CandidateLists == UNION {[1..n -> CandidatePool] : n \in 0..MaxCandidates}

(***************************************************************************)
(* The state machine.                                                      *)
(***************************************************************************)

\* SpanPhraseExtractor._load_from_dictionary: the trie entries of the brand dictionary
brand_entries(dicts) ==
  [k \in 1..Len(get_entries(dicts, "brands")) |->
     [word |-> get_entries(dicts, "brands")[k].word, tag |-> "brand",
      confidence |-> get_entries(dicts, "brands")[k].confidence, type |-> "brand"]]

\* create_span_extractor: the brands of the dictionary, then COMMON_PHRASES
create_span_extractor(dicts, want_cjk) ==
  load_trie(load_trie({}, brand_entries(dicts), want_cjk), COMMON_PHRASES, want_cjk)

\* the state after DictionaryManager.load_all and EnhancedPipeline.__init__
Loaded(dicts) ==
  /\ dictionaries = dicts
  /\ word_index = load_index(dicts)
  /\ cjk_trie = create_span_extractor(dicts, TRUE)
  /\ latin_trie = create_span_extractor(dicts, FALSE)
  /\ spans = <<>> /\ locked_ranges = <<>> /\ segments = <<>> /\ handed = <<>>
  /\ all_tokens = <<>> /\ tag_results = <<>> /\ final_results = <<>> /\ merged = <<>>
  /\ ai_answer = <<>> /\ enhanced = <<>> /\ output = <<>> /\ batch = <<>>
  /\ promotions = <<>> /\ files = <<>>
  /\ ja_words = {}

\* the same, with an empty candidate pool and no call in progress
Constructed(dicts) ==
  /\ Loaded(dicts)
  /\ pool = <<>> /\ threads = <<>>

\* process(keyword, language) entered with the preprocessor's output
Init ==
  /\ \E dicts \in DictConfigs : Constructed(dicts)
  /\ pc = "start"
  /\ cleaned \in Texts
  /\ language \in {"None", "en"}
  /\ tokens = <<>>
  /\ candidate_list = <<>>

\* EnhancedTagger.tag called on a token list
InitTag ==
  /\ \E dicts \in TagDictConfigs : Constructed(dicts)
  /\ pc = "tokenized"
  /\ cleaned = <<>>
  /\ language \in Languages
  /\ tokens \in TagTokenLists
  /\ candidate_list = <<>>

\* PhraseMerger.merge called on a token list
InitMerge ==
  /\ Constructed(EmptyDicts)
  /\ pc = "merge"
  /\ cleaned = <<>>
  /\ language = "None"
  /\ tokens \in MergeTokenLists
  /\ candidate_list = <<>>

\* EnhancedTagger._create_result called on a candidate list for the token "XL"
InitResolve ==
  /\ Constructed(EmptyDicts)
  /\ pc = "resolve"
  /\ cleaned = <<>>
  /\ language = "None"
  /\ tokens = <<<<88, 76>>>>
  /\ candidate_list \in CandidateLists

\* process, steps 2 and 3: span extraction and script segmentation
Extract ==
  /\ pc = "start"
  /\ LET r == extract(cjk_trie, latin_trie, cleaned) IN
     /\ spans' = r.spans
     /\ locked_ranges' = r.locked_ranges
  /\ segments' = segment(cleaned)
  /\ pc' = "extracted"
  /\ UNCHANGED <<cleaned, language, dictionaries, word_index, cjk_trie, latin_trie, handed,
                 all_tokens, tokens, tag_results, final_results, merged, candidate_list>>
  /\ UNCHANGED service_vars

\* the offsets at which an external analyzer may split the parts it is given
CutPoints(parts) ==
  UNION {{p \in (parts[k].start + 1)..(parts[k].end - 1) :
            get_tokenizer_for_script(parts[k].script) \in {"chinese", "japanese"}}
         : k \in 1..Len(parts)}

\* process, step 4: tokenization of the unlocked parts, span tokens added, sorted by position
Tokenize ==
  /\ pc = "extracted"
  /\ LET parts == SelectSeq(unlocked_parts_of(segments, locked_ranges),
                            LAMBDA p : strip(p.text) # <<>>)
     IN \E cuts \in SUBSET CutPoints(parts) :
          /\ handed' = parts
          /\ all_tokens' = collect_tokens(parts, spans, cuts)
          /\ tokens' = [k \in 1..Len(all_tokens') |-> all_tokens'[k].text]
  /\ pc' = "tokenized"
  /\ UNCHANGED <<cleaned, language, dictionaries, word_index, cjk_trie, latin_trie, spans,
                 locked_ranges, segments, tag_results, final_results, merged, candidate_list>>
  /\ UNCHANGED service_vars

\* process, step 5: EnhancedTagger.tag
Tag ==
  /\ pc = "tokenized"
  /\ tag_results' = tag(dictionaries, word_index, tokens, language)
  /\ pc' = "tagged"
  /\ UNCHANGED <<cleaned, language, dictionaries, word_index, cjk_trie, latin_trie, spans,
                 locked_ranges, segments, handed, all_tokens, tokens, final_results, merged, candidate_list>>
  /\ UNCHANGED service_vars

\* process, step 6: the preset override
ApplyPresets ==
  /\ pc = "tagged"
  /\ final_results' = [k \in 1..Len(tag_results) |-> apply_preset(all_tokens, tag_results[k])]
  /\ pc' = "done"
  /\ UNCHANGED <<cleaned, language, dictionaries, word_index, cjk_trie, latin_trie, spans,
                 locked_ranges, segments, handed, all_tokens, tokens, tag_results, merged, candidate_list>>
  /\ UNCHANGED service_vars

\* PhraseMerger.merge
Merge ==
  /\ pc = "merge"
  /\ merged' = merge(tokens)
  /\ pc' = "merged"
  /\ UNCHANGED <<cleaned, language, dictionaries, word_index, cjk_trie, latin_trie, spans,
                 locked_ranges, segments, handed, all_tokens, tokens, tag_results,
                 final_results, candidate_list>>
  /\ UNCHANGED service_vars

Next == Extract \/ Tokenize \/ Tag \/ ApplyPresets
Spec == Init /\ [][Next]_vars

\* EnhancedTagger._create_result
CreateResult ==
  /\ pc = "resolve"
  /\ tag_results' = <<create_result(tokens[1], candidate_list)>>
  /\ pc' = "resolved"
  /\ UNCHANGED <<cleaned, language, dictionaries, word_index, cjk_trie, latin_trie, spans,
                 locked_ranges, segments, handed, all_tokens, tokens, final_results, merged,
                 candidate_list>>
  /\ UNCHANGED service_vars

NextTag == Tag
SpecTag == InitTag /\ [][NextTag]_vars

NextMerge == Merge
SpecMerge == InitMerge /\ [][NextMerge]_vars

NextResolve == CreateResult
SpecResolve == InitResolve /\ [][NextResolve]_vars


(***************************************************************************)
(* ScriptSegmenter.segment called on its own.                              *)
(***************************************************************************)
MaxSegLen == 4        \* longest text given to the segmenter directly

\* a, 1, space, hyphen, hiragana ki, the ideograph U+4E2D
SegAlphabet == {97, 49, 32, 45, 12365, 20013}

\* texts whose whitespace runs are single spaces, the empty text included
SegTexts ==
  {t \in UNION {[1..n -> SegAlphabet] : n \in 0..MaxSegLen} :
     \A k \in 1..(Len(t) - 1) : ~(t[k] = 32 /\ t[k + 1] = 32)}

InitSegment ==
  /\ Constructed(EmptyDicts)
  /\ pc = "segment"
  /\ cleaned \in SegTexts
  /\ language = "None"
  /\ tokens = <<>>
  /\ candidate_list = <<>>

\* ScriptSegmenter.segment
SegmentText ==
  /\ pc = "segment"
  /\ segments' = segment(cleaned)
  /\ pc' = "segmented"
  /\ UNCHANGED <<cleaned, language, dictionaries, word_index, cjk_trie, latin_trie, spans,
                 locked_ranges, handed, all_tokens, tokens, tag_results, final_results,
                 merged, candidate_list>>
  /\ UNCHANGED service_vars

NextSegment == SegmentText
SpecSegment == InitSegment /\ [][NextSegment]_vars

(***************************************************************************)
(* JapaneseCompoundMerger.merge called on its own.                         *)
(***************************************************************************)
MaxJaTokens == 3      \* longest token list given to the Japanese merger directly

\* sneaker, shoes, tote, bag, hand (katakana words), the hiragana ki, the ideograph U+5DFB
JaTokens ==
  {<<12473, 12491, 12540, 12459, 12540>>, <<12471, 12517, 12540, 12474>>,
   <<12488, 12540, 12488>>, <<12496, 12483, 12464>>, <<12495, 12531, 12489>>,
   <<12365>>, <<24059>>}

JaTokenLists == UNION {[1..n -> JaTokens] : n \in 1..MaxJaTokens}

\* the caller's dictionary word set: empty, or holding "handbag" in katakana
JaWordSets == {{}, {<<12495, 12531, 12489, 12496, 12483, 12464>>}}

InitJapanese ==
  /\ Constructed(EmptyDicts)
  /\ pc = "ja_merge"
  /\ cleaned = <<>>
  /\ language = "ja"
  /\ tokens \in JaTokenLists
  /\ candidate_list = <<>>

\* JapaneseCompoundMerger.set_dictionary, then merge_to_strings
MergeJapanese ==
  /\ pc = "ja_merge"
  /\ \E words \in JaWordSets :
       /\ ja_words' = words
       /\ merged' = ja_merge_to_strings(tokens, words)
  /\ pc' = "ja_merged"
  /\ UNCHANGED <<cleaned, language, dictionaries, word_index, cjk_trie, latin_trie, spans,
                 locked_ranges, segments, handed, all_tokens, tokens, tag_results,
                 final_results, candidate_list>>
  /\ UNCHANGED <<ai_answer, enhanced, output, batch, pool, promotions, threads, files>>

NextJapanese == MergeJapanese
SpecJapanese == InitJapanese /\ [][NextJapanese]_vars

(***************************************************************************)
(* process from step 5 on, with the AI enhancer enabled.                   *)
(***************************************************************************)
MaxEnhanceTokens == 2   \* longest token list tagged and then sent through the AI enhancement

EnhanceTokenLists == UNION {[1..n -> TagTokens] : n \in 1..MaxEnhanceTokens}

\* what the AI may answer for a word: a label of the prompt, a label of its own ("material"),
\* an entry without "tag", an entry without "confidence"
AIEntries ==
  {AIEntry({"tag", "confidence"}, "brand", 9000), AIEntry({"tag", "confidence"}, "material", 9000),
   AIEntry({"confidence"}, "None", 9000), AIEntry({"tag"}, "brand", 0)}

\* the dictionaries AIEnhancer.process_batch may return for the words: empty after a
\* timeout, a non-200 status or unparsable JSON, else entries for some of the words
AIAnswers(words) ==
  UNION {[ws -> AIEntries] : ws \in SUBSET {words[k] : k \in 1..Len(words)}}

InitEnhance ==
  /\ \E dicts \in DictConfigs : Constructed(dicts)
  /\ pc = "tokenized"
  /\ cleaned = <<>>
  /\ language = "None"
  /\ tokens \in EnhanceTokenLists
  /\ candidate_list = <<>>

\* process, step 7: _apply_ai_enhancement, which updates final_results in place
ApplyAIEnhancement ==
  /\ pc = "done"
  /\ \E answer \in AIAnswers(low_conf_words(final_results)) :
       /\ ai_answer' = answer
       /\ enhanced' = apply_ai_enhancement(final_results, answer)
  /\ final_results' = enhanced'
  /\ pc' = "enhanced"
  /\ UNCHANGED <<cleaned, language, dictionaries, word_index, cjk_trie, latin_trie, spans,
                 locked_ranges, segments, handed, all_tokens, tokens, tag_results, merged,
                 candidate_list>>
  /\ UNCHANGED <<output, batch, pool, promotions, threads, files, ja_words>>

\* process, step 8: _format_output
FormatOutput ==
  /\ pc = "enhanced"
  /\ output' = format_output(cleaned, tokens, enhanced)
  /\ pc' = "formatted"
  /\ UNCHANGED pipeline_data
  /\ UNCHANGED <<ai_answer, enhanced, batch, pool, promotions, threads, files, ja_words>>

NextEnhance == Tag \/ ApplyPresets \/ ApplyAIEnhancement \/ FormatOutput
SpecEnhance == InitEnhance /\ [][NextEnhance]_vars

(***************************************************************************)
(* EnhancedPipeline.process_batch, AI disabled.                            *)
(***************************************************************************)
MaxBatch == 3         \* longest keyword list given to process_batch

\* a batch item: a str, or something else (None), which Preprocessor.process rejects
Keyword(text) == [is_str |-> TRUE, text |-> text]
NotAString == [is_str |-> FALSE, text |-> <<>>]

\* a, 1m, the ideograph U+4E2D, the hiragana ki, None; the CJK and kana parts are single
\* characters, which no analyzer can split
BatchKeywords ==
  {Keyword(<<97>>), Keyword(<<49, 109>>), Keyword(<<20013>>), Keyword(<<12365>>), NotAString}

BatchKeywordLists == UNION {[1..n -> BatchKeywords] : n \in 1..MaxBatch}

\* process, step 4: the non-blank parts handed to the tokenizers
parts_to_tokenize(text) ==
  SelectSeq(unlocked_parts_of(segment(text), extract(cjk_trie, latin_trie, text).locked_ranges),
            LAMBDA p : strip(p.text) # <<>>)

\* process hands a part to ChineseTokenizer.tokenize, whose jieba.lcut call is unguarded
calls_chinese(text) ==
  \E k \in 1..Len(parts_to_tokenize(text)) :
    get_tokenizer_for_script(parts_to_tokenize(text)[k].script) = "chinese"

\* EnhancedPipeline.process(keyword), steps 2 to 8, language None, no AI enhancer; all_tokens,
\* tokens and tag_results are bound one after the other, as the code assigns them
process(text, cuts) ==
  CHOOSE out \in
    UNION {UNION {{format_output(text, toks,
                                 [k \in 1..Len(results) |-> apply_preset(all, results[k])])
                     : results \in {tag(dictionaries, word_index, toks, "None")}}
                  : toks \in {[k \in 1..Len(all) |-> all[k].text]}}
           : all \in {collect_tokens(parts_to_tokenize(text),
                                     extract(cjk_trie, latin_trie, text).spans, cuts)}} : TRUE

\* process raises: unicodedata.normalize on a non-str, or jieba raising at this keyword
process_raises(keyword, jieba_raises) ==
  \/ ~keyword.is_str
  \/ calls_chinese(keyword.text) /\ jieba_raises

InitBatch ==
  /\ \E dicts \in DictConfigs : Constructed(dicts)
  /\ pc = "batch"
  /\ cleaned = <<>>
  /\ language = "None"
  /\ tokens = <<>>
  /\ candidate_list = <<>>

batch_unchanged ==
  /\ UNCHANGED pipeline_data
  /\ UNCHANGED <<ai_answer, enhanced, output, pool, promotions, threads, files, ja_words>>

\* process_batch(keywords) entered: results = []
ProcessBatchEnter ==
  /\ pc = "batch"
  /\ \E keywords \in BatchKeywordLists :
       batch' = [keywords |-> keywords, results |-> <<>>, failed |-> {}, status |-> "running"]
  /\ pc' = "batch_loop"
  /\ batch_unchanged

\* process_batch, one turn of the loop: process(keyword), whose exception leaves the
\* method (failed: the position at which it was raised), else results.append(result)
ProcessBatchStep ==
  /\ pc = "batch_loop"
  /\ Len(batch.results) < Len(batch.keywords)
  /\ LET i == Len(batch.results) + 1 IN
     \E jieba_raises \in BOOLEAN :
       IF process_raises(batch.keywords[i], jieba_raises)
       THEN /\ batch' = [batch EXCEPT !.failed = {i}, !.status = "raised"]
            /\ pc' = "batch_done"
       ELSE /\ batch' = [batch EXCEPT !.results = Append(@, process(batch.keywords[i].text, {}))]
            /\ pc' = pc
  /\ batch_unchanged

\* process_batch: return results
ProcessBatchReturn ==
  /\ pc = "batch_loop"
  /\ Len(batch.results) = Len(batch.keywords)
  /\ batch' = [batch EXCEPT !.status = "returned"]
  /\ pc' = "batch_done"
  /\ batch_unchanged

NextBatch == ProcessBatchEnter \/ ProcessBatchStep \/ ProcessBatchReturn
SpecBatch == InitBatch /\ [][NextBatch]_vars

(***************************************************************************)
(* services/candidate_pool.py: one CandidatePool and its dictionary        *)
(* manager, called from one thread.  pool maps a lower-cased word to its   *)
(* CandidateEntry; expired stands for last_seen lying more than            *)
(* expire_days back.  promotions lists the add_entry calls promote made,   *)
(* each with the entry as it was at that moment.  files maps a dictionary  *)
(* name to the entries last saved to its file by this process.             *)
(***************************************************************************)
min_confidence == 7500   \* CandidatePool.__init__ default, 0.75
min_seen_count == 5      \* CandidatePool.__init__ default

MaxSeen == 5             \* add is not called again on an entry seen this often

\* nike, which BrandDicts holds as the brand Nike
PoolWords == {<<110, 105, 107, 101>>}
PoolTags == {"brand", "color"}
\* 0.32 and 0.96: their repeated averages stay whole in 1/10000
PoolConfidences == {3200, 9600}

CandidateEntry(word, label, confidence) ==
  [word |-> word, tag |-> label, confidence |-> confidence, seen_count |-> 1,
   promoted |-> FALSE, rejected |-> FALSE, expired |-> FALSE]

\* pool[key] = entry
pool_with(p, key, entry) == [k \in (DOMAIN p) \cup {key} |-> IF k = key THEN entry ELSE p[k]]

\* CandidatePool._has_conflict: an entry of a dictionary file has no "tag", so
\* existing_tags holds dictionary names
has_conflict(entry, dicts, index) ==
  LET existing_tags ==
        {d \in {"brands", "products", "audiences", "scenarios", "colors", "features", "attributes"} :
           contains(index, d, lower(entry.word)) /\ get_entry(dicts, d, lower(entry.word)).found}
  IN existing_tags # {} /\ entry.tag \notin existing_tags

InitPool ==
  /\ \E dicts \in DictConfigs : Constructed(dicts)
  /\ pc = "pool"
  /\ cleaned = <<>>
  /\ language = "None"
  /\ tokens = <<>>
  /\ candidate_list = <<>>

\* CandidatePool.add(word, tag, confidence), context None
Add ==
  /\ pc = "pool"
  /\ \E word \in PoolWords, label \in PoolTags, confidence \in PoolConfidences :
       LET key == lower(word) IN
       IF key \in DOMAIN pool
       THEN /\ pool[key].seen_count < MaxSeen
            /\ pool' = [pool EXCEPT ![key].seen_count = @ + 1,
                                    ![key].expired = FALSE,
                                    ![key].confidence = (@ + confidence) \div 2]
       ELSE pool' = pool_with(pool, key, CandidateEntry(word, label, confidence))
  /\ UNCHANGED <<pc, pipeline_data>>
  /\ UNCHANGED <<ai_answer, enhanced, output, batch, promotions, threads, files, ja_words>>

\* CandidatePool.reject(word)
Reject ==
  /\ pc = "pool"
  /\ \E key \in DOMAIN pool :
       /\ ~pool[key].rejected
       /\ pool' = [pool EXCEPT ![key].rejected = TRUE]
  /\ UNCHANGED <<pc, pipeline_data>>
  /\ UNCHANGED <<ai_answer, enhanced, output, batch, promotions, threads, files, ja_words>>

\* CandidatePool.promote(word, dictionary_manager), with the add_entry call it makes
Promote ==
  /\ pc = "pool"
  /\ \E key \in DOMAIN pool :
       LET entry == pool[key]
           dict_name == get_dict_name_for_tag(entry.tag, "global")
           after == entries_after_add(dictionaries[dict_name], entry.word, entry.confidence)
       IN /\ ~entry.promoted
          /\ ~entry.rejected
          /\ promotions' = Append(promotions,
                                  [word |-> entry.word, tag |-> entry.tag,
                                   confidence |-> entry.confidence,
                                   seen_count |-> entry.seen_count,
                                   rejected |-> entry.rejected,
                                   conflict |-> has_conflict(entry, dictionaries, word_index)])
          /\ dictionaries' = [dictionaries EXCEPT ![dict_name] = after]
          /\ IF has_entry(dictionaries[dict_name], entry.word)
             THEN UNCHANGED <<word_index, files>>
             ELSE /\ word_index' = word_index \cup {<<lower(entry.word), dict_name>>}
                  /\ files' = save_dictionary(files, dict_name, after)
          /\ pool' = [pool EXCEPT ![key].promoted = TRUE]
  /\ UNCHANGED <<pc, cleaned, language, cjk_trie, latin_trie, spans, locked_ranges, segments,
                 handed, all_tokens, tokens, tag_results, final_results, merged, candidate_list>>
  /\ UNCHANGED <<ai_answer, enhanced, output, batch, threads, ja_words>>

\* more than expire_days pass without a call
TimePasses ==
  /\ pc = "pool"
  /\ \E key \in DOMAIN pool : ~pool[key].expired
  /\ pool' = [key \in DOMAIN pool |-> [pool[key] EXCEPT !.expired = TRUE]]
  /\ UNCHANGED <<pc, pipeline_data>>
  /\ UNCHANGED <<ai_answer, enhanced, output, batch, promotions, threads, files, ja_words>>

\* CandidatePool.cleanup_expired
CleanupExpired ==
  /\ pc = "pool"
  /\ LET expired_keys == {key \in DOMAIN pool :
                            ~(pool[key].promoted \/ pool[key].rejected) /\ pool[key].expired}
     IN /\ expired_keys # {}
        /\ pool' = [key \in (DOMAIN pool) \ expired_keys |-> pool[key]]
  /\ UNCHANGED <<pc, pipeline_data>>
  /\ UNCHANGED <<ai_answer, enhanced, output, batch, promotions, threads, files, ja_words>>

NextPool == Add \/ Reject \/ Promote \/ TimePasses \/ CleanupExpired
SpecPool == InitPool /\ [][NextPool]_vars

\* CandidatePool.get_stats: total, promoted, rejected, pending
get_stats(p) ==
  LET total == Cardinality(DOMAIN p)
      promoted == Cardinality({key \in DOMAIN p : p[key].promoted})
      rejected == Cardinality({key \in DOMAIN p : p[key].rejected})
  IN [total |-> total, promoted |-> promoted, rejected |-> rejected,
      pending |-> total - promoted - rejected]

(***************************************************************************)
(* Two threads writing to the dictionaries of one DictionaryManager.       *)
(* threads maps a thread to its call [op, word, confidence], the position  *)
(* pc it has reached in the call, the list filtered that remove_entry has  *)
(* built and not yet stored, and whether it holds CandidatePool._lock.     *)
(* A thread can be suspended between any two statements; a statement is    *)
(* one step.                                                               *)
(***************************************************************************)
NumThreads == 2

ThreadIds == 1..NumThreads

\* zara, a new word; Nike, a brand of BrandDicts; puma, an entry of the candidate pool
Zara == <<122, 97, 114, 97>>
NikeWord == <<78, 105, 107, 101>>
Puma == <<112, 117, 109, 97>>

Call(op, word, confidence) ==
  [op |-> op, word |-> word, confidence |-> confidence, pc |-> "start",
   filtered |-> <<>>, lock |-> FALSE]

\* add_entry(word, "brand", confidence=0.9), remove_entry(word, "brand"), promote("puma", manager)
Calls ==
  {Call("add_entry", w, 9000) : w \in {Zara, NikeWord}}
    \cup {Call("remove_entry", w, 0) : w \in {Zara, NikeWord}}
    \cup {Call("promote", Puma, 0)}

\* the pool after add("puma", brand, 0.96) was called five times
PromotablePool ==
  pool_with(<<>>, Puma,
            [CandidateEntry(Puma, "brand", 9600) EXCEPT !.seen_count = min_seen_count])

InitWriters ==
  /\ Loaded(BrandDicts)
  /\ pc = "writers"
  /\ cleaned = <<>>
  /\ language = "None"
  /\ tokens = <<>>
  /\ candidate_list = <<>>
  /\ pool = PromotablePool
  /\ threads \in [ThreadIds -> Calls]

\* every write of these calls goes to the dictionary of the brand label
brands_name == get_dict_name_for_tag("brand", "global")

writers_unchanged ==
  /\ UNCHANGED <<pc, cleaned, language, cjk_trie, latin_trie, spans, locked_ranges, segments,
                 handed, all_tokens, tokens, tag_results, final_results, merged, candidate_list>>
  /\ UNCHANGED <<ai_answer, enhanced, output, batch, ja_words>>

\* promote: `with self._lock`, then the tests on the pool entry
PromoteEnter(t) ==
  /\ threads[t].op = "promote" /\ threads[t].pc = "start"
  /\ \A u \in ThreadIds : ~threads[u].lock
  /\ LET key == lower(threads[t].word) IN
     IF key \notin DOMAIN pool \/ pool[key].promoted \/ pool[key].rejected
     THEN threads' = [threads EXCEPT ![t].pc = "done"]
     ELSE threads' = [threads EXCEPT ![t].pc = "check", ![t].lock = TRUE,
                                     ![t].confidence = pool[key].confidence]
  /\ UNCHANGED <<dictionaries, word_index, files, pool, promotions>>
  /\ writers_unchanged

\* add_entry entered directly
AddEnter(t) ==
  /\ threads[t].op = "add_entry" /\ threads[t].pc = "start"
  /\ threads' = [threads EXCEPT ![t].pc = "check"]
  /\ UNCHANGED <<dictionaries, word_index, files, pool, promotions>>
  /\ writers_unchanged

\* add_entry: the scan of the entries; an entry found is updated and the call returns
AddCheck(t) ==
  /\ threads[t].pc = "check"
  /\ IF has_entry(dictionaries[brands_name], threads[t].word)
     THEN /\ dictionaries' = [dictionaries EXCEPT ![brands_name] =
                                entries_after_add(@, threads[t].word, threads[t].confidence)]
          /\ threads' = [threads EXCEPT ![t].pc = IF threads[t].op = "promote" THEN "mark" ELSE "done"]
     ELSE /\ threads' = [threads EXCEPT ![t].pc = "append"]
          /\ UNCHANGED dictionaries
  /\ UNCHANGED <<word_index, files, pool, promotions>>
  /\ writers_unchanged

\* add_entry: self._dictionaries[dict_name]["entries"].append(new_entry)
AddAppend(t) ==
  /\ threads[t].pc = "append"
  /\ dictionaries' = [dictionaries EXCEPT ![brands_name] =
                        Append(@, [word |-> threads[t].word, confidence |-> threads[t].confidence])]
  /\ threads' = [threads EXCEPT ![t].pc = "index"]
  /\ UNCHANGED <<word_index, files, pool, promotions>>
  /\ writers_unchanged

\* add_entry: self._word_index[word_lower].add(dict_name)
AddIndex(t) ==
  /\ threads[t].pc = "index"
  /\ word_index' = word_index \cup {<<lower(threads[t].word), brands_name>>}
  /\ threads' = [threads EXCEPT ![t].pc = "save"]
  /\ UNCHANGED <<dictionaries, files, pool, promotions>>
  /\ writers_unchanged

\* remove_entry: the comprehension over the current list
RemoveFilter(t) ==
  /\ threads[t].op = "remove_entry" /\ threads[t].pc = "start"
  /\ threads' = [threads EXCEPT ![t].pc = "assign",
                                ![t].filtered = entries_after_remove(dictionaries[brands_name],
                                                                     threads[t].word)]
  /\ UNCHANGED <<dictionaries, word_index, files, pool, promotions>>
  /\ writers_unchanged

\* remove_entry: self._dictionaries[dict_name]["entries"] = the list built
RemoveAssign(t) ==
  /\ threads[t].pc = "assign"
  /\ dictionaries' = [dictionaries EXCEPT ![brands_name] = threads[t].filtered]
  /\ threads' = [threads EXCEPT ![t].pc = "discard"]
  /\ UNCHANGED <<word_index, files, pool, promotions>>
  /\ writers_unchanged

\* remove_entry: self._word_index[word_lower].discard(dict_name)
RemoveIndex(t) ==
  /\ threads[t].pc = "discard"
  /\ word_index' = word_index \ {<<lower(threads[t].word), brands_name>>}
  /\ threads' = [threads EXCEPT ![t].pc = "save"]
  /\ UNCHANGED <<dictionaries, files, pool, promotions>>
  /\ writers_unchanged

\* add_entry and remove_entry: _save_dictionary(dict_name)
Save(t) ==
  /\ threads[t].pc = "save"
  /\ files' = save_dictionary(files, brands_name, dictionaries[brands_name])
  /\ threads' = [threads EXCEPT ![t].pc = IF threads[t].op = "promote" THEN "mark" ELSE "done"]
  /\ UNCHANGED <<dictionaries, word_index, pool, promotions>>
  /\ writers_unchanged

\* promote: entry.promoted = True, the pool saved, the lock released
PromoteMark(t) ==
  /\ threads[t].pc = "mark"
  /\ LET key == lower(threads[t].word) IN
     /\ promotions' = Append(promotions,
                             [word |-> pool[key].word, tag |-> pool[key].tag,
                              confidence |-> pool[key].confidence,
                              seen_count |-> pool[key].seen_count,
                              rejected |-> pool[key].rejected,
                              conflict |-> FALSE])
     /\ pool' = [pool EXCEPT ![key].promoted = TRUE]
  /\ threads' = [threads EXCEPT ![t].pc = "done", ![t].lock = FALSE]
  /\ UNCHANGED <<dictionaries, word_index, files>>
  /\ writers_unchanged

NextWriters ==
  \E t \in ThreadIds :
    \/ PromoteEnter(t) \/ AddEnter(t) \/ AddCheck(t) \/ AddAppend(t) \/ AddIndex(t)
    \/ RemoveFilter(t) \/ RemoveAssign(t) \/ RemoveIndex(t) \/ Save(t) \/ PromoteMark(t)
SpecWriters == InitWriters /\ [][NextWriters]_vars

(***************************************************************************)
(* Preprocessor (core/preprocessor.py).                                    *)
(***************************************************************************)
MaxRawLen == 3

\* raw characters: a, space, tab, no-break space, ideographic space, fullwidth A,
\* fullwidth hyphen-minus, trade mark sign, '-', '.', '!', an ideograph
RawAlphabet == {97, 32, 9, 160, 12288, 65313, 65293, 8482, 45, 46, 33, 20013}

RawTexts == UNION {[1..n -> RawAlphabet] : n \in 0..MaxRawLen}

preserve_chars == {45, 47, 46, 43, 38, 39}

\* unicodedata.normalize("NFKC", c) of one character: the compatibility mappings of
\* the raw alphabet (no character of it combines with its neighbour)
nfkc_char(c) ==
  IF c = 160 \/ c = 12288 THEN <<32>>
  ELSE IF 65281 <= c /\ c <= 65374 THEN <<c - 65248>>
  ELSE IF c = 8482 THEN <<84, 77>>
  ELSE <<c>>

unicode_normalize(text) == Concat([i \in 1..Len(text) |-> nfkc_char(text[i])])

fullwidth_to_halfwidth(text) ==
  [i \in 1..Len(text) |->
     IF text[i] = 12288 THEN 32
     ELSE IF 65281 <= text[i] /\ text[i] <= 65374 THEN text[i] - 65248
     ELSE text[i]]

\* re.sub(r'\s+', ' ', text): every run of whitespace becomes one space
RECURSIVE collapse_whitespace(_)
collapse_whitespace(text) ==
  IF text = <<>> THEN <<>>
  ELSE IF isspace(Head(text)) THEN <<32>> \o collapse_whitespace(lstrip(text))
  ELSE <<Head(text)>> \o collapse_whitespace(Tail(text))

normalize_whitespace(text) == strip(collapse_whitespace(text))

\* the loop of _clean_special_chars: the character is kept or replaced by a space
clean_char(c) ==
  IF isalnum(c) \/ isspace(c) THEN c
  ELSE IF c \in preserve_chars THEN c
  ELSE IF 19968 <= c /\ c <= 40959 THEN c
  ELSE IF 12352 <= c /\ c <= 12543 THEN c
  ELSE IF 13312 <= c /\ c <= 19903 THEN c
  ELSE 32

\* a cleaner whose result is the joined characters, without the closing re.sub and strip
Variant_clean_without_final_collapse(text) == [i \in 1..Len(text) |-> clean_char(text[i])]

clean_special_chars(text) ==
  strip(collapse_whitespace([i \in 1..Len(text) |-> clean_char(text[i])]))

\* Preprocessor.process: (text, record)
preprocess(text) ==
  LET processed == clean_special_chars(normalize_whitespace(fullwidth_to_halfwidth(unicode_normalize(text))))
  IN [text |-> processed,
      record |-> [original |-> text,
                  steps |-> <<"unicode_normalize", "fullwidth_to_halfwidth",
                              "normalize_whitespace", "clean_special_chars">>,
                  processed |-> processed]]

InitPreprocess ==
  /\ \E dicts \in DictConfigs : Constructed(dicts)
  /\ pc = "raw"
  /\ cleaned = <<>>
  /\ language = "None"
  /\ tokens = <<>>
  /\ candidate_list = <<>>

\* preprocessor.process(keyword): cleaned is the text, output the record
Preprocess ==
  /\ pc = "raw"
  /\ \E text \in RawTexts :
       /\ cleaned' = preprocess(text).text
       /\ output' = preprocess(text).record
  /\ pc' = "start"
  /\ UNCHANGED <<language, dictionaries, word_index, cjk_trie, latin_trie, spans, locked_ranges,
                 segments, handed, all_tokens, tokens, tag_results, final_results, merged,
                 candidate_list, ai_answer, enhanced, batch, pool, promotions, threads, files,
                 ja_words>>

NextPreprocess == Preprocess

SpecPreprocess == InitPreprocess /\ [][NextPreprocess]_vars

(***************************************************************************)
(* One caller of DictionaryManager.add_entry / remove_entry.  threads is   *)
(* the log of the caller's last MaxCalls completed calls.                  *)
(***************************************************************************)
MaxCalls == 2

\* nike, Nike
DictWords == {<<110, 105, 107, 101>>, NikeWord}
DictTags == {"brand", "color"}
DictLanguages == {"global", "zh"}
DictConfidences == {9000}

DictCall(op, word, label, lang) == [op |-> op, word |-> word, tag |-> label, language |-> lang]

\* the log with one more call, cut to its last MaxCalls calls
logged(log, call) ==
  LET all == Append(log, call)
  IN SubSeq(all, Max(1, Len(all) - MaxCalls + 1), Len(all))

InitDict ==
  /\ \E dicts \in DictConfigs : Constructed(dicts)
  /\ pc = "dict"
  /\ cleaned = <<>>
  /\ language = "None"
  /\ tokens = <<>>
  /\ candidate_list = <<>>

dict_unchanged ==
  /\ UNCHANGED <<pc, cleaned, language, cjk_trie, latin_trie, spans, locked_ranges, segments,
                 handed, all_tokens, tokens, tag_results, final_results, merged, candidate_list>>
  /\ UNCHANGED <<ai_answer, enhanced, output, batch, pool, promotions, ja_words>>

\* DictionaryManager.add_entry(word, tag, language, confidence)
AddEntry ==
  /\ pc = "dict"
  /\ \E word \in DictWords, label \in DictTags, lang \in DictLanguages, confidence \in DictConfidences :
       LET dict_name == get_dict_name_for_tag(label, lang)
           after == entries_after_add(dictionaries[dict_name], word, confidence)
       IN /\ dictionaries' = [dictionaries EXCEPT ![dict_name] = after]
          /\ IF has_entry(dictionaries[dict_name], word)
             THEN UNCHANGED <<word_index, files>>
             ELSE /\ word_index' = word_index \cup {<<lower(word), dict_name>>}
                  /\ files' = save_dictionary(files, dict_name, after)
          /\ threads' = logged(threads, DictCall("add_entry", word, label, lang))
  /\ dict_unchanged

\* DictionaryManager.remove_entry(word, tag)
RemoveEntry ==
  /\ pc = "dict"
  /\ \E word \in DictWords, label \in DictTags :
       LET dict_name == get_dict_name_for_tag(label, "global")
           after == entries_after_remove(dictionaries[dict_name], word)
       IN /\ dictionaries' = [dictionaries EXCEPT ![dict_name] = after]
          /\ word_index' = word_index \ {<<lower(word), dict_name>>}
          /\ files' = save_dictionary(files, dict_name, after)
          /\ threads' = logged(threads, DictCall("remove_entry", word, label, "global"))
  /\ dict_unchanged

NextDict == AddEntry \/ RemoveEntry

SpecDict == InitDict /\ [][NextDict]_vars

(***************************************************************************)
(* Properties.                                                             *)
(***************************************************************************)

\* the static matrix read as a relation on unordered pairs: a pair is
\* incompatible when the table lists it, in either order, with False
matrix_compatible(tag1, tag2) ==
  \/ tag1 = tag2
  \/ ~\E e \in TAG_COMPATIBILITY :
        ~e.value /\ (e.key = <<tag1, tag2>> \/ e.key = <<tag2, tag1>>)

\* C1: a TagResult whose primary tag is size never carries color or brand
\* as its secondary tag, and are_tags_compatible is false for size with
\* brand and for size with color, in either argument order, wherever such a
\* result has a brand or color candidate.
C1_SizeNeverWithColorOrBrand ==
  pc = "tagged" =>
    \A k \in 1..Len(tag_results) :
      tag_results[k].primary_tag = "size" =>
        /\ \A j \in 2..Len(tag_results[k].tags) :
             tag_results[k].tags[j] \notin {"color", "brand"}
        /\ \A j \in 1..Len(tag_results[k].all_candidates) :
             LET t == tag_results[k].all_candidates[j].tag IN
             t \in {"color", "brand"} =>
               ~are_tags_compatible("size", t) /\ ~are_tags_compatible(t, "size")

\* C2: tag returns exactly one TagResult per input token, in input order,
\* for every token list and every language hint.
C2_OneResultPerToken ==
  pc = "tagged" =>
    /\ Len(tag_results) = Len(tokens)
    /\ \A k \in 1..Len(tag_results) : tag_results[k].token = tokens[k]

in_range(pos, r) == r.start <= pos /\ pos < r.end

\* C3: the ranges handed to the tokenizers together with the locked ranges
\* cover every non-whitespace position of the input, and no handed range
\* intersects a locked range.
C3_CoverageAndExclusion ==
  pc \in {"tokenized", "tagged", "done"} =>
    /\ \A pos \in 0..(Len(cleaned) - 1) :
         ~isspace(At(cleaned, pos)) =>
           \/ \E k \in 1..Len(handed) : in_range(pos, handed[k])
           \/ \E k \in 1..Len(locked_ranges) : in_range(pos, locked_ranges[k])
    /\ \A h \in 1..Len(handed) : \A l \in 1..Len(locked_ranges) :
         handed[h].end <= locked_ranges[l].start \/ locked_ranges[l].end <= handed[h].start

\* C3 witness: a segment is cut by a lock and its remainder is handed to a tokenizer
C3_Witness ==
  /\ pc = "tokenized"
  /\ \E s \in 1..Len(segments) : \E l \in 1..Len(locked_ranges) : \E h \in 1..Len(handed) :
       /\ segments[s].start <= locked_ranges[l].start
       /\ locked_ranges[l].end < segments[s].end
       /\ handed[h].start = locked_ranges[l].end
       /\ handed[h].end = segments[s].end

sorted_disjoint(rs) ==
  \A k \in 1..(Len(rs) - 1) : rs[k].start <= rs[k + 1].start /\ rs[k].end <= rs[k + 1].start

\* C4: extract returns spans sorted by start and pairwise non-overlapping,
\* and locked ranges that are sorted and pairwise disjoint.
C4_SpansAndLocksDisjoint ==
  pc # "start" => sorted_disjoint(spans) /\ sorted_disjoint(locked_ranges)

ascii_alnum(c) == isascii(c) /\ isalnum(c)

\* no ASCII letter or digit immediately before offset s or immediately after offset e
on_word_boundary(s, e) ==
  /\ s = 0 \/ ~ascii_alnum(At(cleaned, s - 1))
  /\ e >= Len(cleaned) \/ ~ascii_alnum(At(cleaned, e))

\* the indexed phrase w matches the text at offset i, ignoring case
phrase_matches_at(w, i) == lower(Slice(cleaned, i, i + Len(w))) = w

occurs_inside(q, p) ==
  Len(q) < Len(p) /\ \E k \in 0..(Len(p) - Len(q)) : Slice(p, k, k + Len(q)) = q

\* C5: when indexed phrases p and q, q occurring inside p, match at a scan
\* position and p is the longest phrase there that passes the boundary
\* check, the emitted span is p and no other phrase span lies inside p's range.
C5_LongestMatchPrecedence ==
  pc # "start" =>
    \A i \in 0..(Len(cleaned) - 1) : \A p \in latin_trie : \A q \in latin_trie :
      ( /\ occurs_inside(q.word, p.word)
        /\ phrase_matches_at(p.word, i)
        /\ on_word_boundary(i, i + Len(p.word))
        /\ \A r \in latin_trie :
             (Len(r.word) > Len(p.word) /\ phrase_matches_at(r.word, i))
               => ~on_word_boundary(i, i + Len(r.word))
        /\ \A k \in 1..Len(spans) : ~(spans[k].start < i /\ i < spans[k].end)
        /\ \A k \in 1..Len(spans) :
             spans[k].span_type = "number_unit" => ~in_range(i, spans[k]) )
      => /\ \E k \in 1..Len(spans) : spans[k].start = i /\ spans[k].end = i + Len(p.word)
         /\ \A k \in 1..Len(spans) :
              ( /\ spans[k].span_type # "number_unit"
                /\ i <= spans[k].start /\ spans[k].end <= i + Len(p.word) )
                => (spans[k].start = i /\ spans[k].end = i + Len(p.word))

\* C6: every span produced from the Latin trie has no ASCII letter or digit
\* immediately before its start and none immediately after its end.
C6_LatinBoundary ==
  pc # "start" =>
    \A k \in 1..Len(spans) :
      (spans[k].span_type # "number_unit" /\ ~is_cjk_char(At(cleaned, spans[k].start)))
        => on_word_boundary(spans[k].start, spans[k].end)

\* C7: every token that carries a preset (tag, confidence) has its result
\* replaced by {tags: [preset tag], confidence: preset confidence, method:
\* "preset"} if and only if the preset confidence is >= the tagger's
\* confidence for that token; otherwise the tagger's result is kept.
C7_PresetOverride ==
  pc = "done" =>
    \A k \in 1..Len(all_tokens) :
      all_tokens[k].tag # "None" =>
        /\ k <= Len(tag_results) /\ k <= Len(final_results)
        /\ tag_results[k].token = all_tokens[k].text
        /\ final_results[k].token = all_tokens[k].text
        /\ IF all_tokens[k].confidence >= tag_results[k].confidence
           THEN /\ final_results[k].tags = <<all_tokens[k].tag>>
                /\ final_results[k].confidence = all_tokens[k].confidence
                /\ final_results[k].method = "preset"
           ELSE final_results[k] = tag_results[k]

\* C8: at every position i > 0 where token i-1 is a bare number and the
\* lower-cased token i is a unit word, result i is exactly {tags: [size],
\* primary size, confidence 0.95, method "context"}.
C8_NumericUnitRule ==
  pc = "tagged" =>
    \A i \in 2..Len(tokens) :
      (is_number_token(tokens[i - 1]) /\ lower(tokens[i]) \in unit_words) =>
        /\ i <= Len(tag_results)
        /\ tag_results[i].token = tokens[i]
        /\ tag_results[i].tags = <<"size">>
        /\ tag_results[i].primary_tag = "size"
        /\ tag_results[i].confidence = 9500
        /\ tag_results[i].method = "context"

\* the largest length in 1..min(K, n - i) whose lower-cased tuple is a key; 0 if none
longest_key_at(i) ==
  LET lens == {l \in 1..Min(max_phrase_len, Len(tokens) - i) :
                 lower_all(SubSeq(tokens, i + 1, i + l)) \in phrase_keys}
  IN IF lens = {} THEN 0 ELSE CHOOSE l \in lens : \A m \in lens : m <= l

C10_StageBResolution ==
  pc = "resolved" =>
    LET r == tag_results[1] IN
    IF candidate_list = <<>>
    THEN r.tags = <<"attribute">> /\ r.confidence = 5000 /\ r.method = "default"
    ELSE /\ Len(r.tags) \in {1, 2}
         /\ \E k \in 1..Len(candidate_list) :
              /\ \A j \in 1..Len(candidate_list) : candidate_list[j].confidence <= candidate_list[k].confidence
              /\ r.tags[1] = candidate_list[k].tag
              /\ r.primary_tag = candidate_list[k].tag
              /\ r.confidence = candidate_list[k].confidence
              /\ r.method = candidate_list[k].method
              /\ Len(r.tags) = 2 =>
                   \E j \in 1..Len(candidate_list) :
                     /\ j # k
                     /\ candidate_list[j].tag = r.tags[2]
                     /\ candidate_list[j].confidence >= 7000
                     /\ matrix_compatible(r.tags[1], r.tags[2])

(***************************************************************************)
(* Properties of the orchestrator's token order.                           *)
(***************************************************************************)

\* the texts of the all_tokens entries placed at offset p, in list order
texts_at(p) ==
  LET es == SelectSeq(all_tokens, LAMBDA e : e.pos = p)
  IN [k \in 1..Len(es) |-> es[k].text]

\* C11: process emits its tokens in original text offset order: the fragment
\* start offsets never decrease along the token list, every span sits at its
\* own start, and the tokens of one handed part appear together, in the
\* order the tokenizer (and the phrase merger) produced them.
C11_OffsetOrder ==
  pc \in {"tokenized", "tagged", "done"} =>
    /\ tokens = [k \in 1..Len(all_tokens) |-> all_tokens[k].text]
    /\ \A k \in 1..(Len(all_tokens) - 1) : all_tokens[k].pos <= all_tokens[k + 1].pos
    /\ Len(all_tokens) >= Len(spans)
    /\ \A s \in 1..Len(spans) :
         \E k \in 1..Len(all_tokens) :
           /\ all_tokens[k].pos = spans[s].start /\ all_tokens[k].text = spans[s].text
           /\ all_tokens[k].tag = spans[s].tag /\ all_tokens[k].confidence = spans[s].confidence
    /\ \A h \in 1..Len(handed) :
         LET t == get_tokenizer_for_script(handed[h].script) IN
         IF t = "european"
         THEN LET m == merge(european_tokenize(handed[h].text))
              IN texts_at(handed[h].start) = [k \in 1..Len(m) |-> m[k].text]
         ELSE IF t = "passthrough"
         THEN texts_at(handed[h].start) = <<strip(handed[h].text)>>
         ELSE Concat(texts_at(handed[h].start))
                = SelectSeq(handed[h].text, LAMBDA c : ~isspace(c))

\* C11 witness: a span token stands before a tokenizer token, which was
\* collected before it
C11_Witness ==
  /\ pc = "tokenized"
  /\ \E i \in 1..Len(all_tokens) : \E j \in 1..Len(all_tokens) : \E s \in 1..Len(spans) :
       /\ i < j
       /\ all_tokens[i].pos = spans[s].start /\ all_tokens[i].text = spans[s].text
       /\ all_tokens[j].tag = "None" /\ all_tokens[j].pos > all_tokens[i].pos

\* C12: span extraction is idempotent on its own output: extract run on the
\* text of a span it returned yields a span that covers all of that text and
\* has the same tag and the same confidence.
C12_ExtractIdempotent ==
  pc # "start" =>
    \A k \in 1..Len(spans) :
      LET again == extract(cjk_trie, latin_trie, spans[k].text).spans
      IN \E j \in 1..Len(again) :
           /\ again[j].start = 0 /\ again[j].end = Len(spans[k].text)
           /\ again[j].tag = spans[k].tag
           /\ again[j].confidence = spans[k].confidence

(***************************************************************************)
(* Properties of the script segmenter.                                     *)
(***************************************************************************)

\* C18: on a text whose whitespace runs are single spaces, the segments are
\* ordered by start and pairwise non-overlapping, each satisfies
\* 0 <= start < end <= len(text) and carries exactly text[start:end], also
\* after the post-merge step; an empty or all-whitespace text gives no segment.
C18_SegmentOffsets ==
  pc = "segmented" =>
    /\ \A k \in 1..Len(segments) :
         /\ 0 <= segments[k].start /\ segments[k].start < segments[k].end
         /\ segments[k].end <= Len(cleaned)
         /\ Len(segments[k].text) = segments[k].end - segments[k].start
         /\ segments[k].text = Slice(cleaned, segments[k].start, segments[k].end)
    /\ \A k \in 1..(Len(segments) - 1) : segments[k].end <= segments[k + 1].start
    /\ (\A k \in 1..Len(cleaned) : isspace(cleaned[k])) => segments = <<>>

\* C18 witness: the post-merge step joined two segments across a space, and
\* another segment follows
C18_Witness ==
  /\ pc = "segmented"
  /\ Len(segments) >= 2
  /\ \E k \in 1..Len(segments[1].text) : segments[1].text[k] = 32

\* C19: segment never emits a segment whose script is Space or Punct.
C19_NoSpaceOrPunctSegment ==
  pc = "segmented" =>
    \A k \in 1..Len(segments) : segments[k].script \notin {"space", "punct"}

(***************************************************************************)
(* Properties of the Japanese compound merger.                             *)
(***************************************************************************)

\* the input tokens i and i+1 (1-based) lie inside one output token
joined_in_output(i) ==
  LET from == Len(Concat(SubSeq(tokens, 1, i - 1)))
      to == from + Len(tokens[i]) + Len(tokens[i + 1])
  IN \E j \in 1..Len(merged) :
       /\ Len(Concat(SubSeq(merged, 1, j - 1))) <= from
       /\ to <= Len(Concat(SubSeq(merged, 1, j)))

\* C20: two adjacent input tokens, the first katakana and the second a
\* katakana product-noun suffix, are joined into one output token only if the
\* joined string is in the must-merge list or in the caller's dictionary words.
C20_KatakanaMergeGate ==
  pc = "ja_merged" =>
    \A i \in 1..(Len(tokens) - 1) :
      ( /\ ja_is_katakana(tokens[i])
        /\ tokens[i + 1] \in katakana_product_suffixes
        /\ joined_in_output(i) )
      => \/ (tokens[i] \o tokens[i + 1]) \in must_merge
         \/ (tokens[i] \o tokens[i + 1]) \in ja_words

(***************************************************************************)
(* Properties of the AI enhancement.                                       *)
(***************************************************************************)

\* the results as they were when _apply_ai_enhancement was entered
pre_ai_results == [k \in 1..Len(tag_results) |-> apply_preset(all_tokens, tag_results[k])]

\* the AI call failed: nothing came back, or an entry lacks "tag" or "confidence"
ai_failed ==
  \/ DOMAIN ai_answer = {}
  \/ \E w \in DOMAIN ai_answer : ai_answer[w].keys # {"tag", "confidence"}

\* C14: when the AI call times out, fails or returns a malformed answer,
\* _apply_ai_enhancement returns the pre-AI result for every token: no AI update
\* is applied in part.
C14_AIFailureUntouched ==
  (pc \in {"enhanced", "formatted"} /\ ai_failed) => enhanced = pre_ai_results

\* C15: every tag in tagged_tokens[*].tags and every key of tag_summary in the
\* output of process is one of the eight fixed labels, whatever the AI answers.
C15_ClosedVocabulary ==
  pc = "formatted" =>
    /\ \A k \in 1..Len(output.tagged_tokens) :
         \A j \in 1..Len(output.tagged_tokens[k].tags) :
           output.tagged_tokens[k].tags[j] \in tag_descriptions
    /\ \A k \in 1..Len(output.tag_summary) : output.tag_summary[k].tag \in tag_descriptions

(***************************************************************************)
(* Properties of batch processing.                                         *)
(***************************************************************************)

\* C13: process_batch over N keywords returns N results in input order even
\* when process raises for some keyword: that keyword's entry has empty tokens,
\* tagged tokens and tag summary, every other entry is what process returns for
\* the keyword alone.
C13_BatchSurvivesFailure ==
  pc = "batch_done" =>
    /\ batch.status = "returned"
    /\ Len(batch.results) = Len(batch.keywords)
    /\ \A i \in 1..Len(batch.keywords) :
         IF i \in batch.failed
         THEN /\ batch.results[i].tokens = <<>>
              /\ batch.results[i].tagged_tokens = <<>>
              /\ batch.results[i].tag_summary = <<>>
         ELSE batch.results[i] = process(batch.keywords[i].text, {})

(***************************************************************************)
(* Properties of the candidate pool and of the dictionary writers.         *)
(***************************************************************************)

\* C16: whatever the sequence of add, reject, promote and cleanup_expired
\* calls, an entry is written to the permanent dictionary only if at that
\* moment its confidence >= min_confidence, its seen_count >= min_seen_count,
\* its tag does not conflict with the dictionary and it is not rejected.
C16_PromotionGate ==
  \A k \in 1..Len(promotions) :
    /\ promotions[k].confidence >= min_confidence
    /\ promotions[k].seen_count >= min_seen_count
    /\ ~promotions[k].conflict
    /\ ~promotions[k].rejected

\* the thread is inside its read-modify-write-to-file cycle
in_write_cycle(t) == threads[t].pc \in {"append", "index", "assign", "discard", "save"}

\* the entries of the brands file: as saved last, or as loaded if never saved
brands_file == IF brands_name \in DOMAIN files THEN files[brands_name] ELSE BrandDicts[brands_name]

\* C17: the write cycles of two threads calling add_entry, remove_entry or
\* promote never interleave, and once both calls are over a word added by one
\* call and removed by none is in the dictionary in memory and in its file.
C17_WritersExclusive ==
  /\ \A t, u \in ThreadIds : (t # u /\ in_write_cycle(t)) => ~in_write_cycle(u)
  /\ (\A t \in ThreadIds : threads[t].pc = "done") =>
       \A t \in ThreadIds :
         ( /\ threads[t].op \in {"add_entry", "promote"}
           /\ \A u \in ThreadIds : ~(threads[u].op = "remove_entry" /\ threads[u].word = threads[t].word) )
         => /\ has_entry(dictionaries[brands_name], threads[t].word)
            /\ has_entry(brands_file, threads[t].word)


(***************************************************************************)
(* Properties of the phrase merger's output structure.                     *)
(***************************************************************************)

\* C21: the [start_idx, end_idx) intervals of merge's results partition 0..n
\* in order, original_tokens is tokens[start_idx:end_idx], is_merged says
\* whether the interval is longer than 1, and a token matching no phrase
\* passes through as a length-1 result with its text unchanged and no tag.
C21_MergeStructure ==
  pc = "merged" =>
    /\ merged[1].start_idx = 0
    /\ merged[Len(merged)].end_idx = Len(tokens)
    /\ \A k \in 1..(Len(merged) - 1) : merged[k + 1].start_idx = merged[k].end_idx
    /\ \A k \in 1..Len(merged) :
         /\ merged[k].start_idx < merged[k].end_idx
         /\ merged[k].original_tokens
              = SubSeq(tokens, merged[k].start_idx + 1, merged[k].end_idx)
         /\ merged[k].is_merged = (merged[k].end_idx - merged[k].start_idx > 1)
         /\ lower_all(merged[k].original_tokens) \notin phrase_keys =>
              /\ merged[k].end_idx = merged[k].start_idx + 1
              /\ merged[k].text = tokens[merged[k].start_idx + 1]
              /\ merged[k].suggested_tag = "None"

\* C21 witness: a merged phrase stands between two tokens that match no phrase
C21_Witness ==
  /\ pc = "merged"
  /\ \E i, j, k \in 1..Len(merged) :
       /\ i < j /\ j < k
       /\ merged[i].suggested_tag = "None"
       /\ merged[j].is_merged
       /\ merged[k].suggested_tag = "None"

\* number of occurrences of character c in s
RECURSIVE count(_, _)
count(s, c) ==
  IF s = <<>> THEN 0 ELSE (IF Head(s) = c THEN 1 ELSE 0) + count(Tail(s), c)

C23_NoDuplicateTag ==
  pc \in {"tagged", "done"} =>
    \A k \in 1..Len(tag_results) :
      \A i, j \in 1..Len(tag_results[k].tags) :
        i # j => tag_results[k].tags[i] # tag_results[k].tags[j]

\* C24: every span returned by extract, a number+unit span included, ends at a word
\* boundary: the character immediately after the span's end is not an ASCII letter or digit
C24_SpanEndsAtBoundary ==
  pc # "start" =>
    \A k \in 1..Len(spans) :
      spans[k].end >= Len(cleaned) \/ ~ascii_alnum(At(cleaned, spans[k].end))

\* C25: an indexed Latin phrase that occurs at an unlocked scan position with no ASCII
\* letter or digit on either side yields a span starting at that position, even when a
\* longer indexed phrase also matches there and is followed by an ASCII letter or digit
C25_BoundaryMatchNotLost ==
  pc # "start" =>
    \A i \in 0..(Len(cleaned) - 1) : \A p \in latin_trie :
      ( /\ ~is_cjk_char(At(cleaned, i))
        /\ phrase_matches_at(p.word, i)
        /\ on_word_boundary(i, i + Len(p.word))
        /\ \A k \in 1..Len(spans) : ~(spans[k].start < i /\ i < spans[k].end)
        /\ \A k \in 1..Len(spans) :
             spans[k].span_type = "number_unit" => ~in_range(i, spans[k]) )
      => \E k \in 1..Len(spans) : spans[k].start = i

\* the entries of the default table whose key is written as one word (a str)
single_word_entries == {p \in default_phrases : \A k \in 1..Len(p.tokens) : Len(p.tokens[k]) = 1}

\* C26: merge([w]) of a single-word entry w of the default table returns one MergedToken
\* with that entry's suggested tag and confidence, and max_phrase_len is 3, the largest
\* number of words of a phrase
C26_SingleWordEntries ==
  pc = "merged" =>
    /\ max_phrase_len = 3
    /\ \A p \in single_word_entries :
         tokens = <<Concat(p.tokens)>> =>
           /\ Len(merged) = 1
           /\ merged[1].suggested_tag = p.tag
           /\ merged[1].confidence = p.confidence

\* C27: for every dictionary name and word, contains is true exactly when get_entry
\* returns an entry, and that entry is among get_entries of the name
C27_LookupsAgree ==
  pc = "dict" =>
    \A d \in DictNames : \A w \in DictWords :
      /\ contains(word_index, d, w) <=> get_entry(dictionaries, d, w).found
      /\ get_entry(dictionaries, d, w).found =>
           \E k \in 1..Len(get_entries(dictionaries, d)) :
             /\ get_entries(dictionaries, d)[k].word = get_entry(dictionaries, d, w).word
             /\ get_entries(dictionaries, d)[k].confidence = get_entry(dictionaries, d, w).confidence

\* C28: after add_entry(word, tag, language) followed by remove_entry(word, tag),
\* contains(dictionary of the tag, word) is false and the index holds no dictionary name
\* for the word in which no entry with that word exists
C28_AddRemoveRoundTrip ==
  ( /\ pc = "dict" /\ Len(threads) >= 2
    /\ threads[Len(threads) - 1].op = "add_entry"
    /\ threads[Len(threads)].op = "remove_entry"
    /\ threads[Len(threads)].word = threads[Len(threads) - 1].word
    /\ threads[Len(threads)].tag = threads[Len(threads) - 1].tag )
  => LET word == threads[Len(threads)].word
         category == get_dict_name_for_tag(threads[Len(threads)].tag, "global")
     IN /\ ~contains(word_index, category, word)
        /\ \A d \in DictNames :
             <<lower(word), d>> \in word_index => has_entry(dictionaries[d], word)

\* C29: no pool entry has both promoted and rejected set, and get_stats reports
\* total = promoted + rejected + pending with pending the number of entries that are
\* neither promoted nor rejected
C29_FlagsExclusive ==
  pc = "pool" =>
    /\ \A key \in DOMAIN pool : ~(pool[key].promoted /\ pool[key].rejected)
    /\ get_stats(pool).total
         = get_stats(pool).promoted + get_stats(pool).rejected + get_stats(pool).pending
    /\ get_stats(pool).pending
         = Cardinality({key \in DOMAIN pool : ~pool[key].promoted /\ ~pool[key].rejected})

\* out is inp cut into contiguous runs, each run joined into one string
RECURSIVE is_run_partition(_, _)
is_run_partition(out, inp) ==
  IF out = <<>> THEN inp = <<>>
  ELSE \E n \in 1..Len(inp) :
         /\ Concat(SubSeq(inp, 1, n)) = Head(out)
         /\ is_run_partition(Tail(out), SubSeq(inp, n + 1, Len(inp)))

\* C30: merge_to_strings only joins adjacent tokens: the concatenation of the output
\* equals the concatenation of the input, the output is never longer than the input, and
\* each output string is the concatenation of a contiguous run of input tokens
C30_OnlyJoinsAdjacent ==
  pc = "ja_merged" =>
    /\ Concat(merged) = Concat(tokens)
    /\ Len(merged) <= Len(tokens)
    /\ is_run_partition(merged, tokens)

\* C30 witness: of three tokens the first is kept and the last two are joined
C30_Witness ==
  /\ pc = "ja_merged"
  /\ Len(tokens) = 3 /\ Len(merged) = 2
  /\ merged[1] = tokens[1]
  /\ merged[2] = tokens[2] \o tokens[3]
====
